---- MODULE Spec2Model ----
(***************************************************************************)
(* Bitcoin Rainbow Chart: the /api/rainbow proxy route and the RainbowChart *)
(* client component (its variants), as one state machine.                 *)
(*                                                                         *)
(* Time unit: a raw timestamp n of the model stands for the number         *)
(* n * 172800 of the program, so that a day is 500 model units once a      *)
(* timestamp is in milliseconds and every value fits TLC's integers.       *)
(* Price unit: a price n of the model stands for n * 1e-9, so that EPS is  *)
(* the price 1.  Logarithms are held in units of ln 2.                     *)
(***************************************************************************)
EXTENDS Integers, Sequences, FiniteSets, TLC

\* Longest payload.price array the upstream dataset holds.
MaxItems == 2
\* The longest series of the long datasets
MaxRows == 731

(***************************************************************************)
(* JSON: the values of a body (text level) and the values of the program   *)
(* (after JSON.parse).  A value is a record tagged by kind.                *)
(***************************************************************************)
JNull == [kind |-> "null"]
Undefined == [kind |-> "undefined"]
JNum(n) == [kind |-> "num", val |-> n]
\* A number literal beyond the range of a double (1e999), text level only.
JHuge == [kind |-> "huge"]
\* The number Infinity, program level only.
JInf == [kind |-> "inf"]
JStr(s) == [kind |-> "str", val |-> s]
JArr(s) == [kind |-> "arr", val |-> s]
JObj(f) == [kind |-> "obj", val |-> f]
\* A body that is not JSON text (an HTML error page, an empty body).
Garbage == [kind |-> "garbage"]

Parseable(t) == t.kind # "garbage"

\* res.json(): JSON.parse of the body; a literal too large for a double
\* becomes Infinity.
RECURSIVE JsonParse(_)
JsonParse(t) ==
  CASE t.kind = "huge" -> JInf
    [] t.kind = "arr" -> JArr([i \in DOMAIN t.val |-> JsonParse(t.val[i])])
    [] t.kind = "obj" -> JObj([k \in DOMAIN t.val |-> JsonParse(t.val[k])])
    [] OTHER -> t

\* NextResponse.json(v): JSON.stringify of the value; Infinity is written
\* as null.
RECURSIVE JsonStringify(_)
JsonStringify(v) ==
  CASE v.kind = "inf" -> JNull
    [] v.kind = "arr" -> JArr([i \in DOMAIN v.val |-> JsonStringify(v.val[i])])
    [] v.kind = "obj" -> JObj([k \in DOMAIN v.val |-> JsonStringify(v.val[k])])
    [] OTHER -> v

(***************************************************************************)
(* The proxy route: GET of src/app/api/rainbow/route.ts                    *)
(***************************************************************************)
UPSTREAM == "https://charts.bitcoin.com/api/v1/charts/rainbow"
revalidate == 3600

\* A query string is a sequence of <<name, value>> pairs.
\* searchParams.get(k): the first value of k, as <<v>>, or <<>> for null.
SearchGet(q, k) ==
  LET hits == SelectSeq(q, LAMBDA p : p[1] = k)
  IN  IF hits = <<>> THEN <<>> ELSE <<hits[1][2]>>

\* a ?? d
Coalesce(opt, d) == IF opt = <<>> THEN d ELSE opt[1]

\* url.searchParams.set(k, v): the first pair named k takes the value and the
\* other pairs named k go; with no pair named k, one is appended.
SearchSet(q, k, v) ==
  LET idx == {i \in DOMAIN q : q[i][1] = k}
  IN  IF idx = {} THEN Append(q, <<k, v>>)
      ELSE LET first == CHOOSE i \in idx : \A j \in idx : i <= j
               put == [i \in DOMAIN q |-> IF i = first THEN <<k, v>> ELSE q[i]]
               RECURSIVE Keep(_)
               Keep(i) == IF i > Len(q) THEN <<>>
                          ELSE IF i \in idx /\ i # first THEN Keep(i + 1)
                          ELSE <<put[i]>> \o Keep(i + 1)
           IN  Keep(1)

\* UpstreamUrl with || in place of ??: an empty value takes the default.
UpstreamUrl_OrDefault(q) ==
  LET pick(k, d) == IF SearchGet(q, k) \in {<<>>, <<"">>} THEN d
                    ELSE SearchGet(q, k)[1]
  IN  [base |-> UPSTREAM,
       query |-> << <<"interval", pick("interval", "daily")>>,
                    <<"timespan", pick("timespan", "all")>>,
                    <<"limit", pick("limit", "5000")>> >>]

\* Lines 9-19: the upstream URL built from the incoming query.
UpstreamUrl(q) ==
  LET interval == Coalesce(SearchGet(q, "interval"), "daily")
      timespan == Coalesce(SearchGet(q, "timespan"), "all")
      limit == Coalesce(SearchGet(q, "limit"), "5000")
      q1 == SearchSet(<<>>, "interval", interval)
      q2 == SearchSet(q1, "timespan", timespan)
      q3 == SearchSet(q2, "limit", limit)
  IN  [base |-> UPSTREAM, query |-> q3]

\* res.ok taken as "no server error": status < 500.
ResOk_Below500(status) == status >= 200 /\ status <= 499

\* res.ok
ResOk(status) == status >= 200 /\ status <= 299

\* The Cache-Control value of line 42, directive by directive.
CacheControl ==
  <<"public", <<"s-maxage", revalidate>>, <<"stale-while-revalidate", 86400>>>>

JsonHeaders == [h \in {"content-type"} |-> "application/json"]

\* NextResponse.json(body, {status, headers})
RelayHeaders == ("Cache-Control" :> CacheControl) @@ JsonHeaders

\* RespRelay with the value wrapped in an envelope.
RespRelay_Wrapped(data) ==
  [status |-> 200, headers |-> RelayHeaders,
   body |-> JObj([data |-> JsonStringify(data)])]

RespRelay(data) ==
  [status |-> 200, headers |-> RelayHeaders, body |-> JsonStringify(data)]

\* RespUpstreamError sent with the headers of the relayed response.
\* RespUpstreamError answering with the status of the upstream.
RespUpstreamError_SameStatus(status) ==
  [status |-> status, headers |-> JsonHeaders,
   body |-> JObj([error |-> JStr("Upstream error"), status |-> JNum(status)])]

RespUpstreamError_Cached(status) ==
  [status |-> 502, headers |-> RelayHeaders,
   body |-> JObj([error |-> JStr("Upstream error"), status |-> JNum(status)])]

RespUpstreamError(status) ==
  [status |-> 502, headers |-> JsonHeaders,
   body |-> JObj([error |-> JStr("Upstream error"), status |-> JNum(status)])]

RespFetchFailed(details) ==
  [status |-> 500, headers |-> JsonHeaders,
   body |-> JObj([error |-> JStr("Fetch failed"), details |-> JStr(details)])]

\* String(err) for the two errors the try block can raise.
FetchTypeError == "TypeError: fetch failed"
JsonSyntaxError == "SyntaxError: Unexpected token in JSON"

(***************************************************************************)
(* The chart component: helpers shared by the variants                     *)
(***************************************************************************)
\* 10_000_000_000 in model units (10^10 / 172800, rounded up): below it a
\* timestamp is read as seconds.
SEC_LIMIT == 57871
\* 1000 * 60 * 60 * 24 ms in model units.
DAY_MS == 500
\* Date.UTC(2009, 0, 3) in model units (day 14247 of the epoch).
BITCOIN_GENESIS_MS == 7123500
\* Date.UTC(2028, 0, 1) in model units (day 21184 of the epoch).
CHART_END_MS == 10592000
\* "2012-01-01" as a date label (day 15340 of the epoch).
CHART_START_DATE == 15340
\* The day of the epoch that is 10000-01-01: from it on toISOString writes
\* the year with a sign and six digits, "+010000-01-01T...", and the label
\* is "+010000-01".
YEAR_10000 == 2932897

toMs(ts) == IF ts < SEC_LIMIT THEN ts * 1000 ELSE ts

\* The label new Date(ms).toISOString().slice(0, 10) of a timestamp, held as
\* the day of the epoch it names (timestamps of the model are not negative,
\* and at most one day of a dataset is in the year 10000 or later).
toDateLabel(ts) == toMs(ts) \div DAY_MS

\* a >= b for two labels, compared as strings: the labels of the years
\* 0000..9999 are "YYYY-MM-DD" and compare as their days do; a label that
\* starts with "+" is smaller than every label that starts with a digit.
LabelGeq(a, b) ==
  IF (a >= YEAR_10000) # (b >= YEAR_10000) THEN b >= YEAR_10000
  ELSE a >= b

isRecord(v) == v.kind \in {"obj", "arr"}
IsArray(v) == v.kind = "arr"
\* typeof v === "number"
IsNumber(v) == v.kind \in {"num", "inf"}
Nullish(v) == v.kind \in {"null", "undefined"}
\* v[k] for a string key k that is no array index
Prop(v, k) == IF v.kind = "obj" /\ k \in DOMAIN v.val THEN v.val[k] ELSE Undefined
\* v > 0 for a number v
Positive(v) == v.kind = "inf" \/ v.val > 0

(***************************************************************************)
(* Numbers of the regression: exact fractions n/d in lowest terms, d > 0    *)
(***************************************************************************)
RECURSIVE Gcd(_, _)
Gcd(a, b) == IF b = 0 THEN a ELSE Gcd(b, a % b)

Abs(n) == IF n < 0 THEN -n ELSE n

Frac(n, d) ==
  LET g == Gcd(Abs(n), Abs(d))
      sg == IF d < 0 THEN -1 ELSE 1
  IN  [n |-> sg * (n \div g), d |-> sg * (d \div g)]

Whole(n) == [n |-> n, d |-> 1]

\* p + q
RAdd(p, q) ==
  IF p.d = q.d THEN Frac(p.n + q.n, p.d)
  ELSE LET g == Gcd(p.d, q.d)
       IN  Frac(p.n * (q.d \div g) + q.n * (p.d \div g), (p.d \div g) * q.d)

\* p - q
RSub(p, q) == RAdd(p, [n |-> -q.n, d |-> q.d])

\* p * q
RMul(p, q) ==
  IF p.n = 0 \/ q.n = 0 THEN Whole(0)
  ELSE LET g1 == Gcd(Abs(p.n), q.d)
           g2 == Gcd(Abs(q.n), p.d)
       IN  Frac((p.n \div g1) * (q.n \div g2), (p.d \div g2) * (q.d \div g1))

\* p / q for q # 0
RDiv(p, q) ==
  RMul(p, IF q.n < 0 THEN [n |-> -q.d, d |-> -q.n] ELSE [n |-> q.d, d |-> q.n])

\* p < q
RLess(p, q) == p.n * q.d < q.n * p.d

\* Math.max(p, q)
RMax(p, q) == IF RLess(p, q) THEN q ELSE p

\* xs.reduce((acc, v) => acc + v, 0); the sum is exact, so the two halves
\* of the array are summed apart.
RECURSIVE RSum(_)
RSum(s) ==
  IF s = <<>> THEN Whole(0)
  ELSE IF Len(s) = 1 THEN s[1]
  ELSE LET h == Len(s) \div 2
           left == RSum(SubSeq(s, 1, h))
           right == RSum(SubSeq(s, h + 1, Len(s)))
       IN  IF left = Whole(0) THEN right
           ELSE IF right = Whole(0) THEN left
           ELSE RAdd(left, right)

(***************************************************************************)
(* Math.log, in units of ln 2: the binary logarithm of a fraction > 0,     *)
(* truncated to LOG_BITS binary places (exact on the powers of two).       *)
(***************************************************************************)
LOG_BITS == 8
\* The mantissa of the computation has MANT_BITS binary places.
MANT_BITS == 14

Pow2(k) == 2 ^ k

\* The largest k with 2^k <= n/d.
RECURSIVE FloorLog2(_, _)
FloorLog2(n, d) ==
  IF n >= 2 * d THEN FloorLog2(n, 2 * d) + 1
  ELSE IF n < d THEN FloorLog2(2 * n, d) - 1
  ELSE 0

\* floor(2^bits * r/d) for 0 <= r < d, bit by bit.
RECURSIVE Places(_, _, _)
Places(r, d, bits) ==
  IF bits = 0 THEN 0
  ELSE IF 2 * r >= d THEN Pow2(bits - 1) + Places(2 * r - d, d, bits - 1)
  ELSE Places(2 * r, d, bits - 1)

\* floor(2^bits * n/d) for d <= n < 2d.
Mantissa(n, d, bits) == Pow2(bits) + Places(n - d, d, bits)

\* The binary places of log2(m / 2^MANT_BITS), by repeated squaring.
RECURSIVE LogPlaces(_, _)
LogPlaces(m, bits) ==
  IF bits = 0 THEN 0
  ELSE LET sq == (m * m) \div Pow2(MANT_BITS)
       IN  IF sq >= Pow2(MANT_BITS + 1)
           THEN Pow2(bits - 1) + LogPlaces(sq \div 2, bits - 1)
           ELSE LogPlaces(sq, bits - 1)

MathLog(q) ==
  IF q = Whole(1) THEN Whole(0)
  ELSE LET k == FloorLog2(q.n, q.d)
           n == IF k < 0 THEN q.n * Pow2(-k) ELSE q.n
           d == IF k > 0 THEN q.d * Pow2(k) ELSE q.d
       IN  Frac(k * Pow2(LOG_BITS)
                  + LogPlaces(Mantissa(n, d, MANT_BITS), LOG_BITS),
                Pow2(LOG_BITS))

(***************************************************************************)
(* Positive reals: the value m * 2^e is held as [m, e], with m a fraction   *)
(* of odd numerator and denominator, so that equal values are equal        *)
(* records.  The datasets keep every value within the range of a double.   *)
(***************************************************************************)
RECURSIVE Twos(_)
Twos(n) == IF n % 2 = 0 THEN 1 + Twos(n \div 2) ELSE 0

Real(m, e) ==
  IF m.n % 2 = 1 /\ m.d % 2 = 1 THEN [m |-> m, e |-> e]
  ELSE LET up == Twos(m.n)
           down == Twos(m.d)
       IN  [m |-> Frac(m.n \div Pow2(up), m.d \div Pow2(down)),
            e |-> RAdd(e, Whole(up - down))]

\* Math.exp(x), x in units of ln 2
MathExp(x) == Real(Whole(1), x)

\* v * r for a fraction r > 0
Times(v, r) == Real(RMul(v.m, r), v.e)

\* v + w for two values whose e differ by a whole number
Plus(v, w) ==
  LET k == RSub(w.e, v.e).n
  IN  IF k >= 0 THEN Real(RAdd(v.m, RMul(w.m, Whole(Pow2(k)))), v.e)
      ELSE Real(RAdd(RMul(v.m, Whole(Pow2(-k))), w.m), w.e)

\* v < w, by the sign of log2(v / w) = (v.e - w.e) + log2(v.m / w.m): exact
\* for values with the same e and wherever the whole part of the logarithm
\* decides, and by MathLog otherwise.
Less(v, w) ==
  IF v.e = w.e THEN RLess(v.m, w.m)
  ELSE LET de == RSub(v.e, w.e)
           r == RDiv(v.m, w.m)
           k == FloorLog2(r.n, r.d)
       IN  IF ~RLess(RAdd(de, Whole(k)), Whole(0)) THEN FALSE
           ELSE IF ~RLess(Whole(0), RAdd(de, Whole(k + 1))) THEN TRUE
           ELSE RLess(RAdd(de, MathLog(r)), Whole(0))

\* Math.max(v, w)
Max(v, w) == IF Less(v, w) THEN w ELSE v

\* 1e-9
EPS == Real(Whole(1), Whole(0))

BAND_MULTIPLIERS ==
  << Frac(1, 4), Frac(2, 5), Frac(13, 20), Whole(1), Frac(8, 5), Frac(13, 5),
     Frac(21, 5), Frac(34, 5), Whole(11) >>

\* What run() ends with: an exception caught by its catch, or rows to set.
Thrown(msg) == [threw |-> TRUE, msg |-> msg, rows |-> <<>>, keys |-> <<>>]
Loaded(rs, ks) == [threw |-> FALSE, msg |-> "", rows |-> rs, keys |-> ks]

\* json.data on null
NullReadError == "Cannot read properties of null (reading 'data')"
\* fetch() rejected
FailedToFetch == "Failed to fetch"
\* res.json() rejected
BodySyntaxError == "Unexpected token < in JSON at position 0"

\* json.data ?? json
Payload(json) ==
  LET d == Prop(json, "data") IN IF Nullish(d) THEN json ELSE d

\* The filter of the loop over priceArr.
Accepts(item) ==
  /\ isRecord(item)
  /\ IsNumber(Prop(item, "timestamp"))
  /\ IsNumber(Prop(item, "price"))
  /\ Positive(Prop(item, "price"))

\* The points pushed, in array order; the 2028 variant stores toMs(ts).
Points(priceArr, v) ==
  LET kept == SelectSeq(priceArr, Accepts)
  IN  [i \in DOMAIN kept |->
        [ts |-> IF v = "y2028" THEN toMs(Prop(kept[i], "timestamp").val)
                ELSE Prop(kept[i], "timestamp").val,
         price |-> Prop(kept[i], "price").val]]

\* points.sort((a, b) => a.ts - b.ts): ascending and stable.  The points of
\* a smaller ts than the middle point, sorted, then those of its ts in array
\* order, then those of a larger ts, sorted.
RECURSIVE SortByTs(_)
SortByTs(s) ==
  IF Len(s) <= 1 THEN s
  ELSE LET ts == s[(Len(s) + 1) \div 2].ts
       IN  SortByTs(SelectSeq(s, LAMBDA p : p.ts < ts))
           \o SelectSeq(s, LAMBDA p : p.ts = ts)
           \o SortByTs(SelectSeq(s, LAMBDA p : p.ts > ts))

\* days of the log-linear variants: (p.ts - t0) / (1000 * 60 * 60 * 24)
DaysSince(ts, t0) == Frac(ts - t0, DAY_MS)

\* days of the 2028 variant: Math.max(0, (tsMs - BITCOIN_GENESIS_MS) / DAY_MS)
DaysSinceGenesis(tsMs) ==
  RMax(Whole(0), Frac(tsMs - BITCOIN_GENESIS_MS, DAY_MS))

\* The x of a timestamp in the regression: days, or Math.log(days + 1).
XOf(v, ts, t0) ==
  IF v = "y2028" THEN MathLog(RAdd(DaysSinceGenesis(ts), Whole(1)))
  ELSE DaysSince(ts, t0)

\* Regression with denom taken as n * sumXX.
Regression_NoMeanTerm(xs, ys) ==
  LET n == Len(xs)
      denom(sum) == RMul(Whole(n), sum.XX)
      b(sum, d) ==
        IF d = Whole(0) THEN Whole(0)
        ELSE RDiv(RSub(RMul(Whole(n), sum.XY), RMul(sum.X, sum.Y)), d)
      a(sum, slope) ==
        IF n = 0 THEN Whole(0)
        ELSE RDiv(RSub(sum.Y, RMul(slope, sum.X)), Whole(n))
      fit(sum) ==
        CHOOSE r \in {[a |-> a(sum, slope), b |-> slope] :
                        slope \in {b(sum, denom(sum))}} : TRUE
  IN  CHOOSE r \in
        {fit(sum) :
           sum \in {[X |-> RSum(xs),
                     Y |-> RSum(ys),
                     XX |-> RSum([i \in DOMAIN xs |-> RMul(xs[i], xs[i])]),
                     XY |-> RSum([i \in DOMAIN xs |-> RMul(xs[i], ys[i])])]}} :
        TRUE

\* The sums sumX, sumY, sumXX and sumXY (the members of sum), denom, and the
\* slope b and intercept a.  Each const is one value: the sums are computed
\* once and b once, as the one member of a set.
Regression(xs, ys) ==
  LET n == Len(xs)
      denom(sum) == RSub(RMul(Whole(n), sum.XX), RMul(sum.X, sum.X))
      b(sum, d) ==
        IF d = Whole(0) THEN Whole(0)
        ELSE RDiv(RSub(RMul(Whole(n), sum.XY), RMul(sum.X, sum.Y)), d)
      a(sum, slope) ==
        IF n = 0 THEN Whole(0)
        ELSE RDiv(RSub(sum.Y, RMul(slope, sum.X)), Whole(n))
      fit(sum) ==
        CHOOSE r \in {[a |-> a(sum, slope), b |-> slope] :
                        slope \in {b(sum, denom(sum))}} : TRUE
  IN  CHOOSE r \in
        {fit(sum) :
           sum \in {[X |-> RSum(xs),
                     Y |-> RSum(ys),
                     XX |-> RSum([i \in DOMAIN xs |-> RMul(xs[i], xs[i])]),
                     XY |-> RSum([i \in DOMAIN xs |-> RMul(xs[i], ys[i])])]}} :
        TRUE

\* The loop that fills xs and ys, and the fit over them.
Fit(v, points) ==
  Regression([i \in DOMAIN points |-> XOf(v, points[i].ts, points[1].ts)],
             [i \in DOMAIN points |-> MathLog(Whole(points[i].price))])

\* Math.exp(a + b * x)
Baseline(v, fit, ts, t0) ==
  MathExp(RAdd(fit.a, RMul(fit.b, XOf(v, ts, t0))))

\* Zones without Math.max(EPS, ...).
Zones_Unclamped(baseline) ==
  [i \in 1..9 |-> Times(baseline, BAND_MULTIPLIERS[i])]

\* zone_0 .. zone_8, held as the sequence zone[1] .. zone[9]
Zones(baseline) ==
  [i \in 1..9 |-> Max(EPS, Times(baseline, BAND_MULTIPLIERS[i]))]

\* IntervalRow with every band starting at EPS.
IntervalRow_FromEps(fit, t0, p) ==
  LET baseline == Baseline("interval", fit, p.ts, t0)
      zone == Zones(baseline)
  IN  [date |-> toDateLabel(p.ts), price |-> p.price, baseline |-> baseline,
       zone |-> zone,
       band |-> [i \in 1..9 |-> <<Max(EPS, EPS), Max(EPS, zone[i])>>]]

\* A row of the interval variant: band_i is [zone_(i-1), zone_i] and band_0
\* starts at EPS; band_0 .. band_8 are held as band[1] .. band[9].
IntervalRow(fit, t0, p) ==
  LET baseline == Baseline("interval", fit, p.ts, t0)
      zone == Zones(baseline)
  IN  [date |-> toDateLabel(p.ts), price |-> p.price, baseline |-> baseline,
       zone |-> zone,
       band |-> [i \in 1..9 |->
                   <<Max(EPS, IF i = 1 THEN EPS ELSE zone[i - 1]),
                     Max(EPS, zone[i])>>]]

\* A stacked row whose bands are clamped like the zones.
StackedRow_Clamped(fit, t0, p) ==
  LET baseline == Baseline("stacked", fit, p.ts, t0)
  IN  [date |-> toDateLabel(p.ts), price |-> p.price, baseline |-> baseline,
       band |-> Zones(baseline)]

\* A row of the stacked variant: band_i is baseline * m.
StackedRow(fit, t0, p) ==
  LET baseline == Baseline("stacked", fit, p.ts, t0)
  IN  [date |-> toDateLabel(p.ts), price |-> p.price, baseline |-> baseline,
       band |-> [i \in 1..9 |-> Times(baseline, BAND_MULTIPLIERS[i])]]

\* buildRow(tsMs, price) of the 2028 variant; price is <<>> when not given.
\* band_i is [zone_i, zone_(i+1)] and the top band is [zone_8, 1.35 * zone_8].
buildRow(fit, tsMs, price) ==
  LET baseline == Baseline("y2028", fit, tsMs, tsMs)
      zone == Zones(baseline)
      row == [date |-> toDateLabel(tsMs), baseline |-> baseline,
              zone |-> zone,
              band |-> [i \in 1..9 |->
                          IF i < 9
                          THEN <<Max(EPS, zone[i]), Max(EPS, zone[i + 1])>>
                          ELSE <<Max(EPS, zone[9]),
                                 Max(EPS, Times(zone[9], Frac(27, 20)))>>]]
  IN  IF price = <<>> THEN row ELSE [price |-> price[1]] @@ row

\* ExtendRows with while (ts < CHART_END_MS).
RECURSIVE ExtendRows_Before(_, _)
ExtendRows_Before(fit, ts) ==
  IF ts < CHART_END_MS
  THEN <<buildRow(fit, ts, <<>>)>> \o ExtendRows_Before(fit, ts + DAY_MS)
  ELSE <<>>

\* The while loop of the 2028 variant: one row a day up to CHART_END_MS.
RECURSIVE ExtendRows(_, _)
ExtendRows(fit, ts) ==
  IF ts <= CHART_END_MS
  THEN <<buildRow(fit, ts, <<>>)>> \o ExtendRows(fit, ts + DAY_MS)
  ELSE <<>>

Extension(fit, points) ==
  LET lastTsMs == points[Len(points)].ts
  IN  IF lastTsMs < CHART_END_MS THEN ExtendRows(fit, lastTsMs + DAY_MS)
      ELSE <<>>

\* points.map(...) and, in the 2028 variant, the rows appended after it.
Rows(v, points) ==
  LET t0 == points[1].ts
      map(fit) ==
        CASE v = "interval" ->
               [i \in DOMAIN points |-> IntervalRow(fit, t0, points[i])]
          [] v = "stacked" ->
               [i \in DOMAIN points |-> StackedRow(fit, t0, points[i])]
          [] v = "y2028" ->
               [i \in DOMAIN points |->
                  buildRow(fit, points[i].ts, <<points[i].price>>)]
               \o Extension(fit, points)
  IN  CHOOSE rs \in {map(fit) : fit \in {Fit(v, points)}} : TRUE

\* The body of run() after res.json(), in the variants that read
\* payload.price: "interval", "stacked" and "y2028".
PriceRun(v, json) ==
  IF Nullish(json) THEN Thrown(NullReadError)
  ELSE LET payload == Payload(json) IN
    IF ~isRecord(payload) THEN Thrown("Formato inesperado: payload no es objeto")
    ELSE LET priceArr == Prop(payload, "price") IN
      IF ~IsArray(priceArr) THEN Thrown("No se encontro data.price como array")
      ELSE LET points == SortByTs(Points(priceArr.val, v)) IN
        \* const t0 = points[0]?.ts; if (!t0) throw
        IF points = <<>> \/ points[1].ts = 0 THEN Thrown("No hay datos de precio")
        ELSE Loaded(Rows(v, points), <<>>)

(***************************************************************************)
(* The merge-by-date variant (part_002)                                    *)
(***************************************************************************)
\* A finite set of strings as a sequence, in a fixed order.
RECURSIVE SetToSeq(_)
SetToSeq(S) ==
  IF S = {} THEN <<>>
  ELSE LET x == CHOOSE y \in S : TRUE IN <<x>> \o SetToSeq(S \ {x})

\* Object.keys(seriesObj): the keys of an object, the indices of an array.
ObjectKeys(payload) ==
  IF payload.kind = "obj" THEN SetToSeq(DOMAIN payload.val)
  ELSE [i \in DOMAIN payload.val |-> ToString(i - 1)]

\* seriesObj[name] for a name of ObjectKeys(seriesObj)
Series(payload, names, i) ==
  IF payload.kind = "obj" THEN payload.val[names[i]] ELSE payload.val[i]

\* The Map is held as its entries [key, row] in insertion order.
\* The entries of m2 written onto m, in the order of m2: a row of a date that
\* m holds takes the members of the row of m2 and keeps its place (row[name]
\* = val on map.get(d)), and the rows of other dates are appended
\* (map.set(d, row) of { date: d }).
MapPutAll(m, m2) ==
  [i \in DOMAIN m |->
     LET at == {j \in DOMAIN m2 : m2[j].key = m[i].key}
     IN  IF at = {} THEN m[i]
         ELSE [key |-> m[i].key,
               row |-> m2[CHOOSE j \in at : TRUE].row @@ m[i].row]]
  \o SelectSeq(m2, LAMBDA e : \A i \in DOMAIN m : m[i].key # e.key)

\* What the loop over the items of one series writes, starting from an
\* empty Map: nothing for an item that fails the test, and the row
\* { date: d, [name]: val } for one that passes; items of one date leave the
\* value of the last.  The two halves of the array are taken one after the
\* other.
RECURSIVE ItemsMap(_, _)
ItemsMap(name, items) ==
  IF items = <<>> THEN <<>>
  ELSE IF Len(items) = 1
  THEN LET item == items[1]
           ok == /\ isRecord(item)
                 /\ IsNumber(Prop(item, "timestamp"))
                 /\ IsNumber(Prop(item, name))
           d == toDateLabel(Prop(item, "timestamp").val)
       IN  IF ok
           THEN <<[key |-> d,
                   row |-> (name :> Prop(item, name).val) @@ [date |-> d]]>>
           ELSE <<>>
  ELSE LET h == Len(items) \div 2
           first == ItemsMap(name, SubSeq(items, 1, h))
           second == ItemsMap(name, SubSeq(items, h + 1, Len(items)))
       IN  IF second = <<>> THEN first
           ELSE IF first = <<>> THEN second
           ELSE MapPutAll(first, second)

\* The inner loop over the items of one series.
MergeItems(m, name, items) == MapPutAll(m, ItemsMap(name, items))

\* The outer loop over the names, from name i on.
RECURSIVE MergeSeries(_, _, _, _)
MergeSeries(m, payload, names, i) ==
  IF i > Len(names) THEN m
  ELSE LET arr == Series(payload, names, i)
           m2 == IF IsArray(arr) THEN MergeItems(m, names[i], arr.val) ELSE m
       IN  MergeSeries(m2, payload, names, i + 1)

\* Array.from(map.values()).sort((a, b) => a.date.localeCompare(b.date)):
\* ascending in the order of the labels and stable, as in SortByTs.  (The
\* comparison of a date that is no string is not modelled: it is not reached
\* with fewer than two rows.)
RECURSIVE SortByDate(_)
SortByDate(rs) ==
  IF Len(rs) <= 1 THEN rs
  ELSE LET date == rs[(Len(rs) + 1) \div 2].date
       IN  SortByDate(SelectSeq(rs, LAMBDA r : ~LabelGeq(r.date, date)))
           \o SelectSeq(rs, LAMBDA r : r.date = date)
           \o SortByDate(SelectSeq(rs, LAMBDA r : ~LabelGeq(date, r.date)))

\* The body of run() after res.json() in the merge variant.
MergeRun(json) ==
  IF Nullish(json) THEN Thrown(NullReadError)
  ELSE LET payload == Payload(json) IN
    IF ~isRecord(payload)
    THEN Thrown("Formato de respuesta inesperado: payload no es objeto")
    ELSE LET names == ObjectKeys(payload) IN
      IF names = <<>> THEN Thrown("Sin series en payload")
      ELSE LET m == MergeSeries(<<>>, payload, names, 1)
               merged == SortByDate([i \in DOMAIN m |-> m[i].row])
               keys == <<"price">> \o SelectSeq(names, LAMBDA n : n # "price")
           IN  Loaded(merged, keys)

(***************************************************************************)
(* The multi-shape variant (part_001, the second component)                *)
(***************************************************************************)
\* The number NaN, program level only.
NaN == [kind |-> "nan"]

\* The strings of the datasets that are numerals, and their numbers.
Numerals == ("1" :> 1) @@ ("10585" :> 10585)

\* Number(v): a number is itself, null is 0, a string is the number it
\* writes (the empty string 0) or NaN, an array is the number of its text
\* (empty 0, one element that of the element, more NaN), and undefined and
\* an object are NaN.
RECURSIVE Number(_)
Number(v) ==
  CASE v.kind = "num" -> v
    [] v.kind = "null" -> JNum(0)
    [] v.kind = "str" ->
         IF v.val = "" THEN JNum(0)
         ELSE IF v.val \in DOMAIN Numerals THEN JNum(Numerals[v.val])
         ELSE NaN
    [] v.kind = "arr" ->
         IF v.val = <<>> THEN JNum(0)
         ELSE IF Len(v.val) = 1 /\ v.val[1].kind \in {"num", "null", "str", "arr"}
         THEN Number(v.val[1])
         ELSE NaN
    [] OTHER -> NaN

\* new Date(NaN).toISOString()
InvalidTime == "Invalid time value"
\* "t" in sample, for a sample that is a number or a string
InOperatorError == "Cannot use 'in' operator to search for 't'"
\* rec[tKey] on null
NullKeyError == "Cannot read properties of null"

\* p[i] of an array, counted from 0
Index(p, i) == IF i + 1 \in DOMAIN p.val THEN p.val[i + 1] ELSE Undefined

\* The keys tried for the timestamp, in the order of the conditional.
TimeKeys == <<"t", "time", "timestamp", "x">>

\* tKey, as <<key>>, or <<>> for null: the first of the keys that is in the
\* sample (an array has none of them).
TKey(sample) ==
  LET hits == SelectSeq(TimeKeys, LAMBDA k : sample.kind = "obj" /\ k \in DOMAIN sample.val)
  IN  IF hits = <<>> THEN <<>> ELSE <<hits[1]>>

\* ts of an element p that is not null where tKey is set.
ElementTs(p, tKey) ==
  IF tKey # <<>> THEN Prop(p, tKey[1])
  ELSE IF IsArray(p) THEN Index(p, 0)
  ELSE JNull

\* What the callback of map raises for an element: "" for nothing.
ElementError(p, tKey) ==
  IF tKey # <<>> /\ p.kind = "null" THEN NullKeyError
  ELSE IF Number(ElementTs(p, tKey)) = NaN THEN InvalidTime
  ELSE ""

\* The object the callback of map returns for an element without error: the
\* date, then with tKey the numeric members of the element other than tKey
\* (only an object passes with tKey), and without tKey the price p[1] of a
\* pair.
NormalizedRow(p, tKey) ==
  LET d == toDateLabel(Number(ElementTs(p, tKey)).val)
      members ==
        IF tKey # <<>>
        THEN [k \in {k \in DOMAIN p.val \ {tKey[1]} : IsNumber(p.val[k])} |-> p.val[k]]
        ELSE IF IsArray(p) /\ IsNumber(Index(p, 1)) THEN [price |-> Index(p, 1)]
        ELSE [k \in {} |-> JNull]
  IN  members @@ [date |-> d]

\* if (Array.isArray(payload)) { ... return; }
NormalizedRun(payload) ==
  LET first == Index(payload, 0)
      sample == IF Nullish(first) THEN JObj([k \in {} |-> JNull]) ELSE first
  IN  IF sample.kind \in {"num", "str"} THEN Thrown(InOperatorError)
      ELSE LET tKey == TKey(sample)
               bad == {i \in DOMAIN payload.val :
                         ElementError(payload.val[i], tKey) # ""}
           IN  IF bad # {}
               THEN Thrown(ElementError(
                      payload.val[CHOOSE i \in bad : \A j \in bad : i <= j], tKey))
               ELSE LET normalized ==
                          [i \in DOMAIN payload.val |->
                             NormalizedRow(payload.val[i], tKey)]
                    IN  Loaded(normalized,
                               IF normalized = <<>> THEN <<>>
                               ELSE SetToSeq(DOMAIN normalized[1] \ {"date"}))

\* A pair the inner loop takes: an array of two or more.
IsPair(pair) == IsArray(pair) /\ Len(pair.val) >= 2

\* What the loop over the pairs of one series writes, starting from an empty
\* Map: the row { date: d, [name]: Number(pair[1]) } for each pair, pairs of
\* one date leaving the value of the last.
RECURSIVE PairsMap(_, _)
PairsMap(name, pairs) ==
  IF pairs = <<>> THEN <<>>
  ELSE LET pair == pairs[Len(pairs)]
           before == PairsMap(name, SubSeq(pairs, 1, Len(pairs) - 1))
       IN  IF ~IsPair(pair) THEN before
           ELSE LET d == toDateLabel(Number(Index(pair, 0)).val)
                IN  MapPutAll(before,
                      <<[key |-> d,
                         row |-> (name :> Number(Index(pair, 1))) @@ [date |-> d]]>>)

\* The outer loop over the names, from name i on.
RECURSIVE MergePairs(_, _, _, _)
MergePairs(m, seriesObj, names, i) ==
  IF i > Len(names) THEN m
  ELSE LET arr == Series(seriesObj, names, i)
       IN  CHOOSE r \in
             {MergePairs(m2, seriesObj, names, i + 1) :
                m2 \in {IF IsArray(arr)
                        THEN MapPutAll(m, PairsMap(names[i], arr.val))
                        ELSE m}} : TRUE

\* if (payload && typeof payload === "object") { ... return; }
SeriesRun(payload) ==
  LET s == Prop(payload, "series")
      seriesObj == IF isRecord(s) THEN s ELSE payload
      names == ObjectKeys(seriesObj)
      invalid ==
        \E i \in DOMAIN names :
           /\ IsArray(Series(seriesObj, names, i))
           /\ \E k \in DOMAIN Series(seriesObj, names, i).val :
                 LET pair == Series(seriesObj, names, i).val[k]
                 IN  IsPair(pair) /\ Number(Index(pair, 0)) = NaN
  IN  IF invalid THEN Thrown(InvalidTime)
      ELSE LET m == MergePairs(<<>>, seriesObj, names, 1)
           IN  Loaded(SortByDate([i \in DOMAIN m |-> m[i].row]),
                      SelectSeq(names, LAMBDA k : k # "date"))

\* json.data ?? json.prices ?? json
MultiPayload(json) ==
  IF ~Nullish(Prop(json, "data")) THEN Prop(json, "data")
  ELSE IF ~Nullish(Prop(json, "prices")) THEN Prop(json, "prices")
  ELSE json

\* The body of run() after res.json() in the multi-shape variant.
MultiRun(json) ==
  IF Nullish(json) THEN Thrown(NullReadError)
  ELSE LET payload == MultiPayload(json)
       IN  IF IsArray(payload) THEN NormalizedRun(payload)
           ELSE IF payload.kind = "obj" THEN SeriesRun(payload)
           ELSE Thrown("Formato de respuesta inesperado")

\* seriesKeys.slice(0, 10).map(...): the series drawn.
Drawn(ks) == SubSeq(ks, 1, IF Len(ks) > 10 THEN 10 ELSE Len(ks))

\* run() after res.json(), by variant.
RunBody(v, json) ==
  CASE v = "merge" -> MergeRun(json)
    [] v = "multi" -> MultiRun(json)
    [] OTHER -> PriceRun(v, json)

(***************************************************************************)
(* Inputs: the upstream dataset, the queries of other clients, the statuses *)
(***************************************************************************)
Item(ts, price) == JObj([timestamp |-> ts, price |-> price])

\* An element of the series of a name: { timestamp, [name]: val }
SeriesItem(name, ts, val) == JObj((name :> val) @@ [timestamp |-> ts])

\* Elements of payload.price with timestamps in seconds: a non-object, an
\* accepted point with timestamp 0, and accepted points of 2027-12-18 (day
\* 21170) and 2027-12-30 (day 21182).
ItemsSec ==
  { JNum(5),
    Item(JNum(0), JNum(1)),
    Item(JNum(10585), JNum(2)),
    Item(JNum(10591), JNum(16)) }

\* Elements with timestamps in milliseconds: a price of 0, and accepted
\* points of 2027-12-18 and of noon of 2027-12-31.
ItemsMs ==
  { Item(JNum(10591750), JNum(0)),
    Item(JNum(10585000), JNum(2)),
    Item(JNum(10591750), JNum(16)) }

RECURSIVE SeqsUpTo(_, _)
SeqsUpTo(S, n) ==
  IF n = 0 THEN {<<>>}
  ELSE LET shorter == SeqsUpTo(S, n - 1)
       IN  shorter \cup {Append(s, x) : s \in shorter, x \in S}

PriceArrays == SeqsUpTo(ItemsSec, MaxItems) \cup SeqsUpTo(ItemsMs, MaxItems)

\* Bodies of other shapes: null, a scalar, a number beyond a double, arrays,
\* an object without a price array, a data wrapper, a null data member,
\* price arrays with a price beyond a double, a timestamp that is no number
\* and a price that is no number, a point of 10000-01-01 (in ms), and a
\* price array that mixes the units: 2027-12-18 in milliseconds before
\* 2027-12-28 in seconds; two series with several elements of one date,
\* the last of them without a number; and a series named date.
ShapeBodies ==
  { JNull, JNum(7), JHuge, JArr(<<>>), JArr(<<JNum(1)>>),
    JObj([price |-> JNum(1)]),
    JObj([data |-> JObj([price |-> JArr(<<Item(JNum(10591), JNum(1))>>)])]),
    JObj([data |-> JNull, price |-> JArr(<<Item(JNum(10585), JNum(2))>>)]),
    JObj([price |-> JArr(<<Item(JNum(10591), JHuge)>>)]),
    JObj([price |-> JArr(<<Item(JStr("2027-12-30"), JNum(1))>>)]),
    JObj([price |-> JArr(<<Item(JNum(10591), JStr("1"))>>)]),
    JObj([price |-> JArr(<<Item(JNum(1466448500), JNum(4))>>)]),
    JObj([price |-> JArr(<<Item(JNum(10585090), JNum(2)),
                           Item(JNum(10590), JNum(16))>>)]),
    JObj([price |-> JArr(<<Item(JNum(10591), JNum(16)),
                           Item(JNum(10585), JNum(2)),
                           Item(JNum(10585), JNum(4)),
                           Item(JNum(10585), JStr("1"))>>),
          band |-> JArr(<<SeriesItem("band", JNum(10585000), JNum(1)),
                          SeriesItem("band", JNum(10585), JNum(3)),
                          SeriesItem("band", JNum(10591), JNum(8))>>)]),
    JObj([price |-> JArr(<<Item(JNum(10585), JNum(2))>>),
          date |-> JArr(<<SeriesItem("date", JNum(10585), JNum(7))>>)]) }

Bodies == ShapeBodies \cup {JObj([price |-> JArr(a)]) : a \in PriceArrays}

\* A pair [timestamp, value] of a series of the multi-shape variant.
Pair(ts, val) == JArr(<<ts, val>>)

\* Eleven series of one pair each.
ManySeries ==
  JObj([series |->
    JObj([name \in {"s01", "s02", "s03", "s04", "s05", "s06",
                    "s07", "s08", "s09", "s10", "s11"} |->
            JArr(<<Pair(JNum(10585), JNum(1))>>)])])

\* Bodies for the multi-shape variant.  Arrays: empty; of a number; of
\* objects with a time key t, with a numeral under time, with a date string
\* under timestamp, with a null element after an object with x, without a
\* time key; of pairs under prices, after a null data member, and after a
\* null element.  Objects: series of pairs under series (several pairs of
\* one date, a numeral as value), series at the top with a short pair and a
\* member that is no array, the shape of the other variants, a pair with a
\* date string, and eleven series.  Neither: a number, a string under data;
\* and null.
MultiBodies ==
  { JArr(<<>>),
    JArr(<<JNum(1)>>),
    JObj([data |-> JArr(<<JObj([t |-> JNum(10585), price |-> JNum(2), band |-> JNum(1)]),
                          JObj([t |-> JNum(10591), price |-> JNum(16)])>>)]),
    JObj([data |-> JArr(<<JObj([time |-> JStr("10585"), v |-> JNum(3)]),
                          JObj([time |-> JNum(10585000), v |-> JNum(4)])>>)]),
    JObj([data |-> JArr(<<JObj([timestamp |-> JStr("2027-12-30"), price |-> JNum(1)])>>)]),
    JObj([data |-> JArr(<<JObj([x |-> JNum(10585), price |-> JNum(2)]), JNull>>)]),
    JObj([data |-> JArr(<<JObj([price |-> JNum(2)])>>)]),
    JObj([prices |-> JArr(<<Pair(JNum(10591), JNum(16)), Pair(JNum(10585), JNum(2))>>)]),
    JObj([data |-> JNull, prices |-> JArr(<<Pair(JNum(10585), JNum(2))>>)]),
    JObj([data |-> JArr(<<JNull, Pair(JNum(10585), JNum(2))>>)]),
    JObj([series |-> JObj([price |-> JArr(<<Pair(JNum(10585), JNum(2)),
                                            Pair(JNum(10591), JNum(16)),
                                            Pair(JNum(10585000), JNum(4))>>),
                           band |-> JArr(<<Pair(JNum(10591), JNum(8)),
                                           Pair(JNum(10585), JStr("1"))>>)])]),
    JObj([price |-> JArr(<<Pair(JNum(10591), JNum(16)), JArr(<<JNum(10585)>>)>>),
          other |-> JNum(5)]),
    JObj([data |-> JObj([price |-> JArr(<<Item(JNum(10585), JNum(2))>>)])]),
    JObj([series |-> JObj([a |-> JArr(<<Pair(JStr("2027-12-30"), JNum(1))>>)])]),
    ManySeries,
    JNum(7),
    JObj([data |-> JStr("x")]),
    JNull }

\* Long series, timestamps in milliseconds.  One point a day for n days after
\* 2024-10-04 (day 20000).
DailySeries(n) ==
  JObj([price |-> JArr([i \in 1..n |-> Item(JNum(10000000 + DAY_MS * i),
                                             JNum(i))])])

\* n points within three days, the price doubling from one day to the next.
IntradaySeries(n) ==
  JObj([price |-> JArr([i \in 1..n |->
          IF 3 * i <= n THEN Item(JNum(10000000), JNum(2))
          ELSE IF 3 * i <= 2 * n THEN Item(JNum(10000000 + DAY_MS), JNum(4))
          ELSE Item(JNum(10000000 + 2 * DAY_MS), JNum(8))])])

\* Lengths of the long series: around one year and around two.
LongLens == {364, 365, 366, 730, MaxRows}

Variants == {"interval", "stacked", "merge", "y2028"}
Clients == {"chart", "ext"}
Ranges == {"1y", "2y", "all"}

\* The query of the chart's fetch.
ChartQuery ==
  << <<"interval", "daily">>, <<"timespan", "all">>, <<"limit", "2000">> >>

\* The query of the fetch of a variant: the multi-shape variant asks for
\* 5000 points.
MultiQuery ==
  << <<"interval", "daily">>, <<"timespan", "all">>, <<"limit", "5000">> >>

QueryOf(v) == IF v = "multi" THEN MultiQuery ELSE ChartQuery

\* Queries of other clients: none; all three parameters; a repeated
\* parameter, a foreign parameter and an empty value.
ExtQueries ==
  { <<>>,
    << <<"interval", "hourly">>, <<"timespan", "1y">>, <<"limit", "10">> >>,
    << <<"interval", "weekly">>, <<"foo", "bar">>, <<"interval", "hourly">>,
       <<"limit", "">> >> }

UpstreamStatuses == {200, 404, 503}

\* What the upstream fetch settles with.
Rejected == [kind |-> "reject"]
Replied(st, b) == [kind |-> "response", status |-> st, body |-> b]

NoUrl == [base |-> "", query |-> <<>>]
\* The fetch has not settled.
Pending == [kind |-> "pending"]
\* res of the handler: the status of the reply, without its body.
ResOf(reply) ==
  IF reply.kind = "response" THEN [kind |-> "response", status |-> reply.status]
  ELSE reply

(***************************************************************************)
(* State                                                                   *)
(***************************************************************************)
VARIABLES
  variant,       \* which version of the component is mounted
  upstreamData,  \* the JSON body the upstream serves
  hpc,           \* per client: where its GET handler stands
  hquery,        \* per client: the query of the incoming request
  hurl,          \* per client: the upstream URL fetched
  hcalls,        \* per client: upstream requests made for the current GET
  hres,          \* per client: what the upstream fetch settled with
  hreply,        \* per client: the upstream body handed to res.json()
  hresp,         \* per client: the responses returned for the current GET
  cpc,           \* the component: rendered, awaitFetch, awaitJson, done
  cres,          \* the body the component is reading
  rows, seriesKeys, loading, err, range,   \* the component's useState cells
  fetches        \* requests the component has issued

hvars == <<hpc, hquery, hurl, hcalls, hres, hreply, hresp>>
cvars == <<cpc, cres, rows, seriesKeys, loading, err, range, fetches>>
vars == <<variant, upstreamData, hvars, cvars>>

\* No request yet, and the component as useState leaves it.
Unmounted ==
  /\ hpc = [c \in Clients |-> "idle"]
  /\ hquery = [c \in Clients |-> <<>>]
  /\ hurl = [c \in Clients |-> NoUrl]
  /\ hcalls = [c \in Clients |-> 0]
  /\ hres = [c \in Clients |-> Pending]
  /\ hreply = [c \in Clients |-> Undefined]
  /\ hresp = [c \in Clients |-> <<>>]
  /\ cpc = "rendered"
  /\ cres = Undefined
  /\ rows = <<>>
  /\ seriesKeys = <<>>
  /\ loading = TRUE
  /\ err = JNull
  /\ range = "all"
  /\ fetches = 0

Init ==
  /\ variant \in Variants
  /\ upstreamData \in Bodies
  /\ Unmounted

\* The multi-shape variant over its bodies.
ShapeInit ==
  /\ variant = "multi"
  /\ upstreamData \in MultiBodies
  /\ Unmounted

\* The variants with range buttons over the long series: the stacked variant
\* over the intraday series and the merge variant over the daily ones.
LongInit ==
  /\ \E n \in LongLens :
       \/ variant = "stacked" /\ upstreamData = IntradaySeries(n)
       \/ variant = "merge" /\ upstreamData = DailySeries(n)
  /\ Unmounted

(***************************************************************************)
(* The proxy route as steps: GET up to its fetch, after the fetch settles,  *)
(* after res.json() settles                                                *)
(***************************************************************************)
\* Another client sends GET /api/rainbow?q.
ExtSend(q) ==
  /\ hpc["ext"] = "idle"
  /\ hpc' = [hpc EXCEPT !["ext"] = "requested"]
  /\ hquery' = [hquery EXCEPT !["ext"] = q]
  /\ UNCHANGED <<variant, upstreamData, hurl, hcalls, hres, hreply, hresp, cvars>>

\* Lines 8-28: the URL is built and the upstream is fetched once.
GetStart(c) ==
  /\ hpc[c] = "requested"
  /\ hurl' = [hurl EXCEPT ![c] = UpstreamUrl(hquery[c])]
  /\ hcalls' = [hcalls EXCEPT ![c] = @ + 1]
  /\ hpc' = [hpc EXCEPT ![c] = "fetching"]
  /\ UNCHANGED <<variant, upstreamData, hquery, hres, hreply, hresp, cvars>>

\* GetAfterFetch with a retry: a rejected fetch sends the handler back to
\* fetch again.
GetAfterFetch_Retry(reply) ==
  IF reply.kind = "reject"
  THEN [pc |-> "requested", out |-> <<>>, reading |-> Undefined]
  ELSE IF ~(reply.status >= 200 /\ reply.status <= 299)
  THEN [pc |-> "responded", out |-> <<RespUpstreamError(reply.status)>>,
        reading |-> Undefined]
  ELSE [pc |-> "reading", out |-> <<>>, reading |-> reply.body]

\* Lines 22-37 and 45-50: the fetch settled.  A rejection is caught (500), a
\* status that is not ok is answered with 502, an ok response is read.
GetAfterFetch(reply) ==
  IF reply.kind = "reject"
  THEN [pc |-> "responded", out |-> <<RespFetchFailed(FetchTypeError)>>,
        reading |-> Undefined]
  ELSE IF ~ResOk(reply.status)
  THEN [pc |-> "responded", out |-> <<RespUpstreamError(reply.status)>>,
        reading |-> Undefined]
  ELSE [pc |-> "reading", out |-> <<>>, reading |-> reply.body]

\* GetOnFetch with res held in a variable of the module, which every
\* request in flight shares.
GetOnFetch_SharedRes(c, reply) ==
  /\ hpc[c] = "fetching"
  /\ LET next == GetAfterFetch(reply)
     IN  /\ hpc' = [hpc EXCEPT ![c] = next.pc]
         /\ hresp' = [hresp EXCEPT ![c] = @ \o next.out]
         /\ hreply' = [hreply EXCEPT ![c] = next.reading]
  /\ hres' = [d \in Clients |-> ResOf(reply)]
  /\ UNCHANGED <<variant, upstreamData, hquery, hurl, hcalls, cvars>>

GetOnFetch(c, reply) ==
  /\ hpc[c] = "fetching"
  /\ LET next == GetAfterFetch(reply)
     IN  /\ hpc' = [hpc EXCEPT ![c] = next.pc]
         /\ hresp' = [hresp EXCEPT ![c] = @ \o next.out]
         /\ hreply' = [hreply EXCEPT ![c] = next.reading]
  /\ hres' = [hres EXCEPT ![c] = ResOf(reply)]
  /\ UNCHANGED <<variant, upstreamData, hquery, hurl, hcalls, cvars>>

\* GetAfterBody with res.json() awaited outside the try block.
GetAfterBody_Uncaught(body) ==
  IF ~Parseable(body)
  THEN [pc |-> "uncaught", out |-> <<>>]
  ELSE [pc |-> "responded", out |-> <<RespRelay(JsonParse(body))>>]

\* Lines 37-50: res.json() settled.  A body that is no JSON is caught (500),
\* the parsed value is relayed with the Cache-Control header.
GetAfterBody(body) ==
  IF ~Parseable(body)
  THEN [pc |-> "responded", out |-> <<RespFetchFailed(JsonSyntaxError)>>]
  ELSE [pc |-> "responded", out |-> <<RespRelay(JsonParse(body))>>]

GetOnBody(c) ==
  /\ hpc[c] = "reading"
  /\ LET next == GetAfterBody(hreply[c])
     IN  /\ hpc' = [hpc EXCEPT ![c] = next.pc]
         /\ hresp' = [hresp EXCEPT ![c] = @ \o next.out]
  /\ UNCHANGED <<variant, upstreamData, hquery, hurl, hcalls, hres, hreply, cvars>>

\* The handler's state for a client once its response is taken.
Closed(c, pc) ==
  /\ hpc' = [hpc EXCEPT ![c] = pc]
  /\ hquery' = [hquery EXCEPT ![c] = <<>>]
  /\ hurl' = [hurl EXCEPT ![c] = NoUrl]
  /\ hcalls' = [hcalls EXCEPT ![c] = 0]
  /\ hresp' = [hresp EXCEPT ![c] = <<>>]
  /\ hres' = [hres EXCEPT ![c] = Pending]
  /\ hreply' = [hreply EXCEPT ![c] = Undefined]

\* The other client receives its response; it may send again.
ExtReceive ==
  /\ hpc["ext"] = "responded"
  /\ Closed("ext", "idle")
  /\ UNCHANGED <<variant, upstreamData, cvars>>

(***************************************************************************)
(* The chart component as steps: the effect, after fetch, after res.json()  *)
(***************************************************************************)
\* getMessage(e) of an Error with message m, as the value of err.
ErrOf(m) == JStr(m)

\* `HTTP ${res.status}`
HttpMessage(status) == "HTTP " \o ToString(status)

HasRange(v) == v \in {"stacked", "merge"}

\* The variants that keep seriesKeys.
HasSeriesKeys(v) == v \in {"merge", "multi"}

\* allRows of the 2028 variant.
allRows(rs) == SelectSeq(rs, LAMBDA r : LabelGeq(r.date, CHART_START_DATE))

hasData(v, rs, ks) ==
  CASE v = "y2028" -> Len(allRows(rs)) > 0
    [] HasSeriesKeys(v) -> Len(rs) > 0 /\ Len(ks) > 0
    [] OTHER -> Len(rs) > 0

\* if (err): a string is truthy unless it is empty.
Truthy(e) == e.kind = "str" /\ e.val # ""

\* ViewOf with the test for data placed before the test for an error.
ViewOf_DataFirst(v, ld, e, rs, ks) ==
  IF ld THEN "loading"
  ELSE IF ~hasData(v, rs, ks) THEN "nodata"
  ELSE IF Truthy(e) THEN "error"
  ELSE "chart"

\* What render returns.
ViewOf(v, ld, e, rs, ks) ==
  IF ld THEN "loading"
  ELSE IF Truthy(e) THEN "error"
  ELSE IF ~hasData(v, rs, ks) THEN "nodata"
  ELSE "chart"

View == ViewOf(variant, loading, err, rows, seriesKeys)

\* The areas of one stackId, stackOffset "none": area i is drawn from the top
\* of area i - 1 to that top plus band_i of the row.
RECURSIVE StackTop(_, _)
StackTop(row, i) ==
  IF i = 1 THEN row.band[1] ELSE Plus(StackTop(row, i - 1), row.band[i])

\* filteredRows with rows.slice(0, days): the first rows of the range.
filteredRows_FromStart(v, rs, ks, rg) ==
  IF ~hasData(v, rs, ks) THEN rs
  ELSE IF rg = "all" THEN rs
  ELSE LET days == IF rg = "1y" THEN 365 ELSE 730
       IN  SubSeq(rs, 1, IF Len(rs) > days THEN days ELSE Len(rs))

\* filteredRows
filteredRows(v, rs, ks, rg) ==
  IF ~hasData(v, rs, ks) THEN rs
  ELSE IF rg = "all" THEN rs
  ELSE LET days == IF rg = "1y" THEN 365 ELSE 730
           start == IF Len(rs) > days THEN Len(rs) - days ELSE 0
       IN  SubSeq(rs, start + 1, Len(rs))

\* useEffect(..., []): run() up to its fetch.
ChartMount ==
  /\ cpc = "rendered"
  /\ loading' = TRUE
  /\ err' = JNull
  /\ fetches' = fetches + 1
  /\ cpc' = "awaitFetch"
  /\ hpc' = [hpc EXCEPT !["chart"] = "requested"]
  /\ hquery' = [hquery EXCEPT !["chart"] = QueryOf(variant)]
  /\ UNCHANGED <<variant, upstreamData, hurl, hcalls, hres, hreply, hresp,
                 cres, rows, seriesKeys, range>>

\* run() after its fetch resolved with a response of this status and body.
AfterFetch(status, body) ==
  IF ~ResOk(status)
  THEN /\ err' = ErrOf(HttpMessage(status))
       /\ loading' = FALSE
       /\ cpc' = "done"
       /\ cres' = Undefined
  ELSE /\ cpc' = "awaitJson"
       /\ cres' = body
       /\ UNCHANGED <<err, loading>>

\* The proxy's response arrives.
ChartOnFetch ==
  /\ cpc = "awaitFetch"
  /\ hpc["chart"] = "responded"
  /\ AfterFetch(hresp["chart"][1].status, hresp["chart"][1].body)
  /\ Closed("chart", "closed")
  /\ UNCHANGED <<variant, upstreamData, rows, seriesKeys, range, fetches>>

\* The request never reaches the route and fetch rejects.
ChartFetchReject ==
  /\ cpc = "awaitFetch"
  /\ hpc["chart"] = "requested"
  /\ err' = ErrOf(FailedToFetch)
  /\ loading' = FALSE
  /\ cpc' = "done"
  /\ Closed("chart", "closed")
  /\ UNCHANGED <<variant, upstreamData, cres, rows, seriesKeys, range, fetches>>

\* A gateway in front of the route answers in its place, with a page that
\* is no JSON.
ChartFetchGateway(status) ==
  /\ cpc = "awaitFetch"
  /\ hpc["chart"] = "requested"
  /\ AfterFetch(status, Garbage)
  /\ Closed("chart", "closed")
  /\ UNCHANGED <<variant, upstreamData, rows, seriesKeys, range, fetches>>

\* ChartOnJson with setLoading(false) as the last line of the try block in
\* place of the finally block.
ChartOnJson_NoFinally ==
  /\ cpc = "awaitJson"
  /\ \E out \in {IF Parseable(cres) THEN RunBody(variant, JsonParse(cres))
                  ELSE Thrown(BodySyntaxError)} :
         /\ rows' = IF out.threw THEN rows ELSE out.rows
         /\ seriesKeys' = IF out.threw \/ ~HasSeriesKeys(variant) THEN seriesKeys
                          ELSE out.keys
         /\ err' = IF out.threw THEN ErrOf(out.msg) ELSE err
         /\ loading' = IF out.threw THEN loading ELSE FALSE
  /\ cpc' = "done"
  /\ cres' = Undefined
  /\ UNCHANGED <<variant, upstreamData, hvars, range, fetches>>

\* ChartOnJson with setErr(getMessage(e)) in the finally block.
ChartOnJson_ErrInFinally ==
  /\ cpc = "awaitJson"
  /\ \E out \in {IF Parseable(cres) THEN RunBody(variant, JsonParse(cres))
                  ELSE Thrown(BodySyntaxError)} :
         /\ rows' = IF out.threw THEN rows ELSE out.rows
         /\ seriesKeys' = IF out.threw \/ ~HasSeriesKeys(variant) THEN seriesKeys
                          ELSE out.keys
         /\ err' = ErrOf(out.msg)
  /\ loading' = FALSE
  /\ cpc' = "done"
  /\ cres' = Undefined
  /\ UNCHANGED <<variant, upstreamData, hvars, range, fetches>>

\* run() after res.json() settled: the rest of the try block, then finally.
ChartOnJson ==
  /\ cpc = "awaitJson"
  /\ \E out \in {IF Parseable(cres) THEN RunBody(variant, JsonParse(cres))
                  ELSE Thrown(BodySyntaxError)} :
         /\ rows' = IF out.threw THEN rows ELSE out.rows
         /\ seriesKeys' = IF out.threw \/ ~HasSeriesKeys(variant) THEN seriesKeys
                          ELSE out.keys
         /\ err' = IF out.threw THEN ErrOf(out.msg) ELSE err
  /\ loading' = FALSE
  /\ cpc' = "done"
  /\ cres' = Undefined
  /\ UNCHANGED <<variant, upstreamData, hvars, range, fetches>>

\* SetRange under an effect that lists range among its dependencies: the
\* click runs run() again.
SetRange_Refetch(r) ==
  /\ HasRange(variant)
  /\ View = "chart"
  /\ range' = r
  /\ loading' = TRUE
  /\ err' = JNull
  /\ fetches' = fetches + 1
  /\ cpc' = "awaitFetch"
  /\ hpc' = [hpc EXCEPT !["chart"] = "requested"]
  /\ hquery' = [hquery EXCEPT !["chart"] = ChartQuery]
  /\ UNCHANGED <<variant, upstreamData, hurl, hcalls, hres, hreply, hresp,
                 cres, rows, seriesKeys>>

\* onClick of a range button: the buttons exist where the chart is drawn.
\* SetRange with the loading message shown while the rows are cut.
SetRange_SetsLoading(r) ==
  /\ HasRange(variant)
  /\ View = "chart"
  /\ range' = r
  /\ loading' = TRUE
  /\ UNCHANGED <<variant, upstreamData, hvars, cpc, cres, rows, seriesKeys,
                 err, fetches>>

SetRange(r) ==
  /\ HasRange(variant)
  /\ View = "chart"
  /\ range' = r
  /\ UNCHANGED <<variant, upstreamData, hvars, cpc, cres, rows, seriesKeys,
                 loading, err, fetches>>

GatewayStatuses == {200, 504}

UpstreamReplies ==
  {Rejected} \cup {Replied(st, b) : st \in UpstreamStatuses,
                                    b \in {upstreamData, Garbage}}

\* The upstream fetch of a handler settles, one way or another.
GetSettle(c) == \E reply \in UpstreamReplies : GetOnFetch(c, reply)

Next ==
  \/ \E q \in ExtQueries : ExtSend(q)
  \/ \E c \in Clients : GetStart(c)
  \/ \E c \in Clients : GetSettle(c)
  \/ \E c \in Clients : GetOnBody(c)
  \/ ExtReceive
  \/ ChartMount
  \/ ChartOnFetch
  \/ ChartFetchReject
  \/ \E st \in GatewayStatuses : ChartFetchGateway(st)
  \/ ChartOnJson
  \/ \E r \in Ranges : SetRange(r)

Spec == Init /\ [][Next]_vars

\* The continuation of run() after res.json() has settled. It is the step of
\* Next that takes cpc from "awaitJson" to "done" (ChartOnJson), a task of the
\* event loop that is enabled as soon as the body has been read, and runs.
JsonContinuation == cpc = "awaitJson" /\ cpc' = "done"

FairSpec == Init /\ [][Next]_vars /\ WF_cpc(JsonContinuation)

\* A page visit while no other client calls the route.
PageNext ==
  \/ GetStart("chart")
  \/ GetSettle("chart")
  \/ GetOnBody("chart")
  \/ ChartMount
  \/ ChartOnFetch
  \/ ChartFetchReject
  \/ \E st \in GatewayStatuses : ChartFetchGateway(st)
  \/ ChartOnJson
  \/ \E r \in Ranges : SetRange(r)

PageSpec == Init /\ [][PageNext]_vars

\* A page visit in which the continuations of run() run once they can: the
\* one after fetch() once the route has responded, the one after res.json().
FairPageSpec ==
  Init /\ [][PageNext]_vars /\ WF_cpc(JsonContinuation) /\ WF_vars(ChartOnFetch)

\* A page visit over a long series.
LongSpec == LongInit /\ [][PageNext]_vars

\* A page visit of the multi-shape variant, which has no range buttons.
ShapeNext ==
  \/ GetStart("chart")
  \/ GetSettle("chart")
  \/ GetOnBody("chart")
  \/ ChartMount
  \/ ChartOnFetch
  \/ ChartFetchReject
  \/ \E st \in GatewayStatuses : ChartFetchGateway(st)
  \/ ChartOnJson

ShapeSpec == ShapeInit /\ [][ShapeNext]_vars

(***************************************************************************)
(* Properties of the proxy route                                           *)
(***************************************************************************)
\* A handler that has fetched the upstream.
Fetched(c) == hpc[c] \in {"fetching", "reading", "responded"}

DefaultOf(k) ==
  CASE k = "interval" -> "daily" [] k = "timespan" -> "all" [] k = "limit" -> "5000"

\* The value the incoming query q gives for k: that of the first pair named
\* k, or the default when no pair is named k.
GivenOrDefault(q, k, v) ==
  IF \E j \in DOMAIN q : q[j][1] = k
  THEN \E j \in DOMAIN q :
         /\ q[j][1] = k /\ q[j][2] = v
         /\ \A i \in 1..(j - 1) : q[i][1] # k
  ELSE v = DefaultOf(k)

\* C1: for every incoming GET the upstream URL is UPSTREAM with exactly the
\* three query parameters interval, timespan and limit, each with the value
\* the incoming request gives (an empty one included) and otherwise with
\* the default daily, all, 5000.
C1_UpstreamUrlCarriesParams ==
  \A c \in Clients : Fetched(c) =>
    LET u == hurl[c].query IN
      /\ hurl[c].base = UPSTREAM
      /\ Len(u) = 3
      /\ <<u[1][1], u[2][1], u[3][1]>> = <<"interval", "timespan", "limit">>
      /\ \A i \in 1..3 : GivenOrDefault(hquery[c], u[i][1], u[i][2])

\* A request with a repeated interval, a foreign parameter and an empty limit
\* has been forwarded.
C1_Witness ==
  /\ hpc["ext"] = "fetching"
  /\ \E j \in DOMAIN hquery["ext"] : hquery["ext"][j][1] = "foo"
  /\ hurl["ext"].query =
       << <<"interval", "weekly">>, <<"timespan", "all">>, <<"limit", "">> >>

\* The three outcomes of a GET.
IsRelay(r) == r.status = 200
IsUpstreamError(r) ==
  r.status = 502 /\ r.body.kind = "obj" /\ r.body.val.error = JStr("Upstream error")
IsFetchFailed(r) ==
  r.status = 500 /\ r.body.kind = "obj" /\ r.body.val.error = JStr("Fetch failed")

\* C2: the proxy never retries: a GET makes at most one upstream request,
\* returns nothing before its upstream fetch settles, and ends with exactly
\* one response, which is the relayed JSON (200), an 'Upstream error' (502)
\* or a 'Fetch failed' (500).
C2_OneRequestOneResponse ==
  \A c \in Clients :
    /\ hcalls[c] <= 1
    /\ Len(hresp[c]) <= 1
    /\ Fetched(c) => hcalls[c] = 1
    /\ hpc[c] \in {"idle", "requested", "fetching", "reading", "responded", "closed"}
    /\ hpc[c] # "responded" => hresp[c] = <<>>
    /\ hpc[c] = "responded" =>
         /\ Len(hresp[c]) = 1
         /\ IsRelay(hresp[c][1]) \/ IsUpstreamError(hresp[c][1])
              \/ IsFetchFailed(hresp[c][1])

\* A GET whose upstream fetch was rejected has answered 500 after its one
\* upstream request.
C2_Witness ==
  /\ hpc["ext"] = "responded"
  /\ hres["ext"].kind = "reject"
  /\ hcalls["ext"] = 1
  /\ IsFetchFailed(hresp["ext"][1])

\* The upstream answered this handler with an ok status.
UpstreamOk(c) ==
  hres[c].kind = "response" /\ hres[c].status >= 200 /\ hres[c].status <= 299

\* The upstream answered this handler with a status that is not ok.
UpstreamNotOk(c) ==
  hres[c].kind = "response" /\ ~(hres[c].status >= 200 /\ hres[c].status <= 299)

\* A JSON text with every number literal beyond a double replaced by null.
RECURSIVE HugeAsNull(_)
HugeAsNull(t) ==
  CASE t.kind = "huge" -> JNull
    [] t.kind = "arr" -> JArr([i \in DOMAIN t.val |-> HugeAsNull(t.val[i])])
    [] t.kind = "obj" -> JObj([k \in DOMAIN t.val |-> HugeAsNull(t.val[k])])
    [] OTHER -> t

\* C3 as stated: when the upstream answers ok with a parseable JSON body, the
\* proxy responds with that same JSON value, whatever its shape.
C3_RelaysSameValue ==
  \A c \in Clients :
    (hpc[c] = "responded" /\ UpstreamOk(c) /\ Parseable(hreply[c])) =>
      (IsRelay(hresp[c][1]) /\ hresp[c][1].body = hreply[c])

\* C3 amended: when the upstream answers ok with a parseable JSON body, the
\* proxy responds 200 with the parsed value written back as JSON, whatever
\* its shape: the same value when every number of the body is a double, and
\* null in the place of each number literal beyond the range of a double.
C3_RelaysParsedValue ==
  \A c \in Clients :
    (hpc[c] = "responded" /\ UpstreamOk(c) /\ Parseable(hreply[c])) =>
      /\ IsRelay(hresp[c][1])
      /\ hresp[c][1].body = HugeAsNull(hreply[c])
      /\ HugeAsNull(hreply[c]) = hreply[c] => hresp[c][1].body = hreply[c]

\* An object with a price array has been relayed as it came.
C3_Witness ==
  /\ hpc["ext"] = "responded"
  /\ UpstreamOk("ext")
  /\ hreply["ext"].kind = "obj"
  /\ "price" \in DOMAIN hreply["ext"].val
  /\ hreply["ext"].val.price.kind = "arr"
  /\ Len(hreply["ext"].val.price.val) = 2
  /\ hresp["ext"][1].status = 200
  /\ hresp["ext"][1].body = hreply["ext"]

\* C4: every response that relays upstream JSON carries Cache-Control
\* 'public, s-maxage=3600, stale-while-revalidate=86400', s-maxage being
\* revalidate, and the 502 and 500 responses carry no Cache-Control header.
C4_CacheControlOnRelayOnly ==
  /\ revalidate = 3600
  /\ \A c \in Clients : \A i \in DOMAIN hresp[c] :
       LET r == hresp[c][i] IN
         /\ r.status \in {200, 500, 502}
         /\ r.status = 200 =>
              /\ "Cache-Control" \in DOMAIN r.headers
              /\ r.headers["Cache-Control"] =
                   <<"public", <<"s-maxage", revalidate>>,
                     <<"stale-while-revalidate", 86400>>>>
         /\ r.status \in {500, 502} => "Cache-Control" \notin DOMAIN r.headers

\* One handler has relayed JSON with the header while the other has answered
\* 502 without it.
C4_Witness ==
  \E c, d \in Clients :
    /\ hpc[c] = "responded" /\ hpc[d] = "responded"
    /\ hresp[c][1].status = 200
    /\ "Cache-Control" \in DOMAIN hresp[c][1].headers
    /\ hresp[d][1].status = 502
    /\ "Cache-Control" \notin DOMAIN hresp[d][1].headers

\* C5: when the upstream responds with a status that is not ok, the proxy
\* responds 502 with body {error: 'Upstream error', status: <that status>}
\* and never reads the upstream body.
C5_UpstreamErrorIs502 ==
  \A c \in Clients : UpstreamNotOk(c) =>
    /\ hpc[c] = "responded"
    /\ hreply[c] = Undefined
    /\ Len(hresp[c]) = 1
    /\ hresp[c][1].status = 502
    /\ hresp[c][1].body =
         JObj([error |-> JStr("Upstream error"), status |-> JNum(hres[c].status)])

\* The upstream answered 404 and the proxy answered 502 naming 404.
C5_Witness ==
  /\ hpc["ext"] = "responded"
  /\ hres["ext"] = [kind |-> "response", status |-> 404]
  /\ hresp["ext"][1].status = 502
  /\ hresp["ext"][1].body.val.status = JNum(404)

\* C6: when the upstream fetch is rejected, or the body of an ok upstream
\* response is no JSON, the proxy responds 500 with body {error: 'Fetch
\* failed', details: <the error as a string>}; no exception escapes GET.
C6_FailuresAre500 ==
  \A c \in Clients :
    /\ hpc[c] # "uncaught"
    /\ hres[c].kind = "reject" =>
         /\ hpc[c] = "responded"
         /\ hresp[c] = <<[status |-> 500, headers |-> JsonHeaders,
                          body |-> JObj([error |-> JStr("Fetch failed"),
                                         details |-> JStr(FetchTypeError)])]>>
    /\ (UpstreamOk(c) /\ hpc[c] # "reading" /\ ~Parseable(hreply[c])) =>
         /\ hpc[c] = "responded"
         /\ hresp[c] = <<[status |-> 500, headers |-> JsonHeaders,
                          body |-> JObj([error |-> JStr("Fetch failed"),
                                         details |-> JStr(JsonSyntaxError)])]>>

\* An ok upstream response whose body is no JSON has been answered with 500.
C6_Witness ==
  /\ hpc["chart"] = "responded"
  /\ UpstreamOk("chart")
  /\ hreply["chart"] = Garbage
  /\ hresp["chart"][1].status = 500
  /\ hresp["chart"][1].body.val.error = JStr("Fetch failed")

(***************************************************************************)
(* Properties of the chart component                                       *)
(***************************************************************************)
\* C7: a mounted component issues exactly one request to /api/rainbow, at
\* mount: none before the effect runs, one ever after, whatever happens
\* later (a range click, a failed or a successful load), and the route sees
\* no second request of the component.
C7_OneFetchPerMount ==
  /\ fetches = IF cpc = "rendered" THEN 0 ELSE 1
  /\ cpc = "rendered" <=> hpc["chart"] = "idle"
  /\ cpc \in {"awaitJson", "done"} => hpc["chart"] = "closed"

\* The chart is drawn, a range button has been clicked, and one request has
\* been issued.
C7_Witness ==
  /\ cpc = "done"
  /\ View = "chart"
  /\ range = "1y"
  /\ fetches = 1

\* C8: once the request to /api/rainbow has resolved or rejected, loading
\* becomes false and stays false, on every path of run().
C8_LoadingEndsFalse ==
  [](cpc \in {"awaitJson", "done"} => <>[](loading = FALSE))

\* The load has ended on the path without usable price data, loading false.
C8_Witness ==
  /\ cpc = "done"
  /\ loading = FALSE
  /\ err = JStr("No hay datos de precio")

\* C9: the view follows (loading, err, rows) by strict precedence: the loading
\* message while loading; otherwise the error when err is not null; otherwise
\* 'No hay datos para mostrar.' without data; otherwise the chart, which is
\* therefore shown only with loading false, err null and at least one row.
C9_ViewPrecedence ==
  /\ loading => View = "loading"
  /\ (~loading /\ err # JNull) => View = "error"
  /\ (~loading /\ err = JNull /\ ~hasData(variant, rows, seriesKeys)) => View = "nodata"
  /\ (~loading /\ err = JNull /\ hasData(variant, rows, seriesKeys)) => View = "chart"
  /\ (~loading /\ err = JNull /\ rows = <<>>) => View = "nodata"
  /\ View = "chart" => (~loading /\ err = JNull /\ Len(rows) >= 1)

\* The chart of the 2028 variant is drawn.
C9_Witness ==
  /\ variant = "y2028"
  /\ View = "chart"
  /\ Len(rows) >= 2

\* The price array of a response body: body.data.price when data is there
\* and not null, else body.price; <<>> marks a body without one.
PriceArrayOf(body) ==
  IF body.kind # "obj" THEN <<>>
  ELSE LET inner == IF "data" \in DOMAIN body.val /\ body.val.data.kind # "null"
                    THEN body.val.data ELSE body
       IN  IF inner.kind = "obj" /\ "price" \in DOMAIN inner.val
              /\ inner.val.price.kind = "arr"
           THEN <<inner.val.price.val>> ELSE <<>>

\* An element that is an object with a numeric timestamp and a numeric
\* price greater than 0.
ElementOk(e) ==
  /\ e.kind = "obj"
  /\ "timestamp" \in DOMAIN e.val /\ e.val.timestamp.kind = "num"
  /\ "price" \in DOMAIN e.val /\ e.val.price.kind = "num"
  /\ e.val.price.val > 0

\* The rows with a price, and the elements, of a given price.
RowsPriced(rs, p) == {i \in DOMAIN rs : "price" \in DOMAIN rs[i] /\ rs[i].price = p}
ElementsPriced(arr, p) == {i \in DOMAIN arr : ElementOk(arr[i]) /\ arr[i].val.price.val = p}

\* C10: when run() has read a payload with a price array, the rows carrying a
\* price correspond one-to-one to the elements that are objects with a
\* numeric timestamp and a numeric price > 0 (as many rows as elements for
\* each price), the other elements raise no error, and every row's price is
\* > 0.
C10_RowsMatchAcceptedElements ==
  [][(cpc = "awaitJson" /\ cpc' = "done" /\ variant # "merge"
        /\ Parseable(cres) /\ PriceArrayOf(cres) # <<>>) =>
       LET arr == PriceArrayOf(cres)[1] IN
         /\ \A i \in DOMAIN rows' : "price" \in DOMAIN rows'[i] => rows'[i].price > 0
         /\ \A p \in {arr[i].val.price.val : i \in {j \in DOMAIN arr : ElementOk(arr[j])}}
                 \cup {rows'[i].price : i \in {j \in DOMAIN rows' : "price" \in DOMAIN rows'[j]}} :
              Cardinality(RowsPriced(rows', p)) = Cardinality(ElementsPriced(arr, p))
         /\ (\E i \in DOMAIN arr : ElementOk(arr[i])) => err' = JNull
    ]_vars

(***************************************************************************)
(* Properties of the regression and the bands                              *)
(***************************************************************************)
PriceVariants == {"interval", "stacked", "y2028"}

\* run() has set rows, in a variant that reads payload.price.
PriceLoaded ==
  /\ variant \in PriceVariants
  /\ cpc = "done" /\ ~loading /\ err = JNull
  /\ rows # <<>>

\* The points of the load: what the route relays of the upstream data, its
\* accepted elements, sorted.
LoadedPoints ==
  LET body == JsonParse(JsonStringify(JsonParse(upstreamData)))
  IN  SortByTs(Points(Prop(Payload(body), "price").val, variant))

\* The timestamp of row i: that of point i, and for the rows after the
\* points that of the i-th day after the last point.
RowTs(pts, i) ==
  IF i <= Len(pts) THEN pts[i].ts
  ELSE pts[Len(pts)].ts + (i - Len(pts)) * DAY_MS

\* C11: the baseline is an ordinary least-squares fit: whenever denom =
\* n*sumXX - sumX*sumX is not zero, the intercept a and the slope b satisfy
\* the normal equations n*a + b*sumX = sumY and a*sumX + b*sumXX = sumXY over
\* the pairs (x_i, ln(price_i)), and the baseline of every row is
\* exp(a + b*x) for the x of that row.
C11_BaselineIsLeastSquares ==
  PriceLoaded =>
    LET pts == LoadedPoints
        xs == [i \in DOMAIN pts |-> XOf(variant, pts[i].ts, pts[1].ts)]
        ys == [i \in DOMAIN pts |-> MathLog(Whole(pts[i].price))]
        n == Whole(Len(pts))
        sumX == RSum(xs)
        sumY == RSum(ys)
        sumXX == RSum([i \in DOMAIN pts |-> RMul(xs[i], xs[i])])
        sumXY == RSum([i \in DOMAIN pts |-> RMul(xs[i], ys[i])])
        fit == Regression(xs, ys)
    IN  /\ RSub(RMul(n, sumXX), RMul(sumX, sumX)) # Whole(0) =>
             /\ RAdd(RMul(n, fit.a), RMul(fit.b, sumX)) = sumY
             /\ RAdd(RMul(fit.a, sumX), RMul(fit.b, sumXX)) = sumXY
        /\ \A i \in DOMAIN rows :
             rows[i].baseline =
               MathExp(RAdd(fit.a,
                            RMul(fit.b, XOf(variant, RowTs(pts, i), pts[1].ts))))

\* Rows of two points with different x and different baselines are loaded.
C11_Witness ==
  /\ PriceLoaded
  /\ Len(rows) >= 2
  /\ rows[1].baseline # rows[2].baseline

\* C12: in the log-linear variants the x of every point is the time elapsed
\* since the earliest accepted point in days, for timestamps in seconds as
\* well as in milliseconds: the difference of the two instants, as
\* toDateLabel reads them, divided by the length of a day.
C12_XIsElapsedDays ==
  (PriceLoaded /\ variant \in {"interval", "stacked"}) =>
    LET pts == LoadedPoints
    IN  \A i \in DOMAIN pts :
          XOf(variant, pts[i].ts, pts[1].ts) =
            Frac(toMs(pts[i].ts) - toMs(pts[1].ts), DAY_MS)

\* The nine band boundaries of a row: band_i of the stacked variant, zone_i
\* of the two others.
Boundaries(r) == IF variant = "stacked" THEN r.band ELSE r.zone

\* C13 as stated: every row carries exactly nine band boundaries, boundary i
\* is the baseline of the row times entry i of the table, the boundaries are
\* strictly increasing in i, and the boundary of index 3 is the baseline.
C13_BoundaryIsBaselineTimesMultiplier ==
  PriceLoaded =>
    \A k \in DOMAIN rows :
      LET bd == Boundaries(rows[k])
      IN  /\ DOMAIN bd = 1..9
          /\ \A i \in 1..9 : bd[i] = Times(rows[k].baseline, BAND_MULTIPLIERS[i])
          /\ \A i \in 1..8 : Less(bd[i], bd[i + 1])
          /\ bd[4] = rows[k].baseline

\* C13, amended: every row carries exactly nine band boundaries.  In the
\* stacked variant boundary i is the baseline times entry i of the table,
\* strictly increasing in i, and index 3 is the baseline.  In the interval
\* and 2028 variants boundary i is the larger of EPS and that product: the
\* boundaries never decrease, they increase strictly above EPS, and each
\* equals the product, index 3 the baseline, when the product is not below
\* EPS.
C13_BoundaryIsClampedProduct ==
  PriceLoaded =>
    \A k \in DOMAIN rows :
      LET bd == Boundaries(rows[k])
          prod == [i \in 1..9 |-> Times(rows[k].baseline, BAND_MULTIPLIERS[i])]
      IN  /\ DOMAIN bd = 1..9
          /\ prod[4] = rows[k].baseline
          /\ IF variant = "stacked"
             THEN /\ \A i \in 1..9 : bd[i] = prod[i]
                  /\ \A i \in 1..8 : Less(bd[i], bd[i + 1])
             ELSE /\ \A i \in 1..9 :
                       bd[i] = IF Less(prod[i], EPS) THEN EPS ELSE prod[i]
                  /\ \A i \in 1..8 :
                       /\ ~Less(bd[i + 1], bd[i])
                       /\ Less(EPS, bd[i + 1]) => Less(bd[i], bd[i + 1])

\* A loaded row of an interval variant whose lowest product is below EPS and
\* whose highest is above.
C13_Witness ==
  /\ PriceLoaded
  /\ variant # "stacked"
  /\ \E k \in DOMAIN rows :
       /\ Less(Times(rows[k].baseline, BAND_MULTIPLIERS[1]), EPS)
       /\ Less(EPS, rows[k].zone[9])

(***************************************************************************)
(* Properties of the range selection                                       *)
(***************************************************************************)
\* The last k rows of rs.
LastRows(rs, k) == [i \in 1..k |-> rs[Len(rs) - k + i]]

AtMost(n, k) == IF n < k THEN n ELSE k

\* The rows the claim gives to the chart.
RangeRows(rs, rg) ==
  CASE rg = "all" -> rs
    [] rg = "1y" -> LastRows(rs, AtMost(Len(rs), 365))
    [] rg = "2y" -> LastRows(rs, AtMost(Len(rs), 730))

\* C14: with N loaded rows, the rows given to the chart are all N rows when
\* range is 'all', the last min(N, 365) rows when range is '1y' and the last
\* min(N, 730) rows when range is '2y'; range starts as 'all', and a click
\* on a range button sets range to the value of that button and changes
\* nothing else; range changes in no other step.
C14_RangeSelectsLastRows ==
  /\ range = "all"
  /\ [](filteredRows(variant, rows, seriesKeys, range) = RangeRows(rows, range))
  /\ [][/\ \A r \in Ranges : SetRange(r) => range' = r
        /\ range' # range =>
             /\ HasRange(variant) /\ View = "chart"
             /\ range' \in Ranges
             /\ UNCHANGED <<rows, seriesKeys, loading, err, cpc, fetches>>]_vars

\* More than two years of rows are loaded and the chart shows two years.
C14_Witness ==
  /\ HasRange(variant)
  /\ View = "chart"
  /\ Len(rows) > 730
  /\ range = "2y"
  /\ Len(filteredRows(variant, rows, seriesKeys, range)) = 730

(***************************************************************************)
(* Properties of the bands as drawn                                        *)
(***************************************************************************)
\* C15: where the bands are areas of one stackId, the top of stacked band i,
\* the sum band_0 + ... + band_i of a row, is the baseline of the row times
\* entry i of BAND_MULTIPLIERS, for every i in 0..8, and every layer is
\* strictly positive.
C15_StackTopIsBoundary ==
  (PriceLoaded /\ variant = "stacked") =>
    \A k \in DOMAIN rows : \A i \in 1..9 :
      /\ StackTop(rows[k], i) = Times(rows[k].baseline, BAND_MULTIPLIERS[i])
      /\ RLess(Whole(0), rows[k].band[i].m)

\* The variants that draw each band as an interval [lower, upper].
IntervalVariants == {"interval", "y2028"}

\* The interval the claim gives the band held as band[i] (band_(i-1)) of a row.
BandOfZones(r, i) ==
  IF variant = "interval"
  THEN <<IF i = 1 THEN EPS ELSE r.zone[i - 1], r.zone[i]>>
  ELSE <<r.zone[i],
         IF i < 9 THEN r.zone[i + 1] ELSE Times(r.zone[9], Frac(27, 20))>>

\* C16 as stated: in the interval variants the nine intervals of a row are
\* non-empty (lower < upper) and adjacent, the upper bound of band_i being
\* the lower bound of band_(i+1) for i in 0..7; band_i is [zone_i,
\* zone_(i+1)] with the top band [zone_8, 1.35 * zone_8] in the 2028 variant,
\* and [zone_(i-1), zone_i] with band_0 starting at EPS in the other.
C16_IntervalsNonEmptyAdjacent ==
  (PriceLoaded /\ variant \in IntervalVariants) =>
    \A k \in DOMAIN rows :
      LET band == rows[k].band
      IN  /\ \A i \in 1..9 : band[i] = BandOfZones(rows[k], i)
          /\ \A i \in 1..8 : band[i][2] = band[i + 1][1]
          /\ \A i \in 1..9 : Less(band[i][1], band[i][2])

\* C16, amended: the nine intervals are those the claim names, they are
\* adjacent, and no lower bound is above its upper bound; an interval is
\* non-empty exactly when its upper bound is above EPS, which the top band
\* of the 2028 variant always is.
C16_IntervalsAdjacent ==
  (PriceLoaded /\ variant \in IntervalVariants) =>
    \A k \in DOMAIN rows :
      LET band == rows[k].band
      IN  /\ \A i \in 1..9 : band[i] = BandOfZones(rows[k], i)
          /\ \A i \in 1..8 : band[i][2] = band[i + 1][1]
          /\ \A i \in 1..9 :
               /\ ~Less(band[i][2], band[i][1])
               /\ Less(band[i][1], band[i][2]) <=> Less(EPS, band[i][2])
          /\ variant = "y2028" => Less(band[9][1], band[9][2])

\* A loaded row with an empty lowest interval and a non-empty highest one.
C16_Witness ==
  /\ PriceLoaded
  /\ variant \in IntervalVariants
  /\ \E k \in DOMAIN rows :
       /\ rows[k].band[1][1] = rows[k].band[1][2]
       /\ Less(rows[k].band[9][1], rows[k].band[9][2])

\* C17: in the interval variants every zone_i and both bounds of every
\* band_i of every row are at least EPS, whatever the fitted baseline is.
C17_ZonesAndBandsAtLeastEps ==
  (PriceLoaded /\ variant \in IntervalVariants) =>
    \A k \in DOMAIN rows : \A i \in 1..9 :
      /\ ~Less(rows[k].zone[i], EPS)
      /\ ~Less(rows[k].band[i][1], EPS)
      /\ ~Less(rows[k].band[i][2], EPS)

\* A loaded row whose two lowest products are below EPS and whose zones of
\* these indices are EPS.
C17_Witness ==
  /\ PriceLoaded
  /\ variant \in IntervalVariants
  /\ \E k \in DOMAIN rows :
       /\ Less(Times(rows[k].baseline, BAND_MULTIPLIERS[2]), EPS)
       /\ rows[k].zone[1] = EPS
       /\ rows[k].zone[2] = EPS

(***************************************************************************)
(* Properties of the 2028 variant                                          *)
(***************************************************************************)
\* The whole days from the last point to 2028-01-01, none when the last
\* point is not before it.
DaysToEnd(lastTsMs) ==
  IF lastTsMs < CHART_END_MS THEN (CHART_END_MS - lastTsMs) \div DAY_MS ELSE 0

\* C18: when the last point is before 2028-01-01, rows are appended at
\* one-day steps from one day after the last point up to the last step not
\* later than 2028-01-01, each without a price and with a baseline, nine
\* zones and nine bands; the rows of the points keep their price; no row is
\* appended when the last point is not before 2028-01-01.
C18_ExtendsByDaysTo2028 ==
  (PriceLoaded /\ variant = "y2028") =>
    LET pts == LoadedPoints
        n == Len(pts)
        lastTsMs == pts[n].ts
        K == DaysToEnd(lastTsMs)
    IN  /\ Len(rows) = n + K
        /\ \A i \in 1..n :
             /\ "price" \in DOMAIN rows[i]
             /\ rows[i].date = toDateLabel(pts[i].ts)
        /\ \A j \in 1..K :
             LET row == rows[n + j]
                 ts == lastTsMs + j * DAY_MS
             IN  /\ ts <= CHART_END_MS
                 /\ row.date = toDateLabel(ts)
                 /\ DOMAIN row = {"date", "baseline", "zone", "band"}
                 /\ DOMAIN row.zone = 1..9
                 /\ DOMAIN row.band = 1..9
        /\ lastTsMs + (K + 1) * DAY_MS > CHART_END_MS

\* Rows are appended after the points, the last of them on 2028-01-01.
C18_Witness ==
  /\ PriceLoaded
  /\ variant = "y2028"
  /\ Len(rows) >= Len(LoadedPoints) + 2
  /\ "price" \notin DOMAIN rows[Len(rows)]
  /\ rows[Len(rows)].date = toDateLabel(CHART_END_MS)

\* C19: in the 2028 variant the rows displayed are the loaded rows whose
\* date label is >= '2012-01-01', in their order, and after a load that
\* finishes without error at least one row is displayed: the view is the
\* chart and never 'No hay datos para mostrar.'.
C19_SuccessfulLoadShowsRows ==
  (variant = "y2028" /\ cpc = "done" /\ err = JNull) =>
    LET kept == {i \in DOMAIN rows : LabelGeq(rows[i].date, CHART_START_DATE)}
        shown == allRows(rows)
    IN  /\ Len(shown) = Cardinality(kept)
        /\ \A i \in DOMAIN shown : LabelGeq(shown[i].date, CHART_START_DATE)
        /\ kept # {}
        /\ View = "chart"

\* C24: the rows of a successful load are in chronological order: the
\* timestamps of consecutive rows of points do not decrease and the date
\* labels of consecutive rows do not decrease (compared as the strings they
\* are), whatever the order of the elements of payload.price.
C24_RowsChronological ==
  PriceLoaded =>
    LET pts == LoadedPoints
    IN  /\ \A i \in 1..(Len(pts) - 1) : pts[i].ts <= pts[i + 1].ts
        /\ \A i \in 1..(Len(rows) - 1) : LabelGeq(rows[i + 1].date, rows[i].date)

(***************************************************************************)
(* Properties of the proxy route under concurrent requests                 *)
(***************************************************************************)
\* All that the handler of a request holds.
HandlerState(c) ==
  <<hpc[c], hquery[c], hurl[c], hcalls[c], hres[c], hreply[c], hresp[c]>>

\* The response that lines 30-50 give for what the upstream fetch of the
\* request settled with and the body it handed to res.json().
ResponseFor(res, body) ==
  IF res.kind = "reject" THEN RespFetchFailed(FetchTypeError)
  ELSE IF ~ResOk(res.status) THEN RespUpstreamError(res.status)
  ELSE IF ~Parseable(body) THEN RespFetchFailed(JsonSyntaxError)
  ELSE RespRelay(JsonParse(body))

MergeLoaded == variant = "merge" /\ cpc = "done" /\ ~loading /\ err = JNull

\* The payload of the load: json.data ?? json of what the route relays.
LoadedPayload == Payload(JsonParse(JsonStringify(JsonParse(upstreamData))))

\* The elements of the series of a name, in array order (none when the
\* member is no array).
SeriesItems(payload, name) ==
  LET arr == Prop(payload, name) IN IF IsArray(arr) THEN arr.val ELSE <<>>

\* The places in the series of a name of the elements that carry a value for
\* the date label d: objects with a numeric timestamp that maps to d and a
\* number under the name.
PlacesOfDate(payload, name, d) ==
  LET items == SeriesItems(payload, name)
  IN  {k \in DOMAIN items :
         /\ isRecord(items[k])
         /\ IsNumber(Prop(items[k], "timestamp"))
         /\ IsNumber(Prop(items[k], name))
         /\ toDateLabel(Prop(items[k], "timestamp").val) = d}

Last(S) == CHOOSE k \in S : \A j \in S : j <= k

\* C25: after a successful load of the merge variant there is at most one
\* row per date label, the rows are in ascending order of their labels, and
\* for each series name a row holds, under that name (price under price),
\* the value of the last element of the series whose timestamp maps to the
\* date of the row, and no value of a series without such an element; every
\* date of an element has its row.
C25_MergedByDate ==
  (MergeLoaded /\ LoadedPayload.kind = "obj") =>
    LET payload == LoadedPayload
        names == DOMAIN payload.val
    IN  /\ \A i, j \in DOMAIN rows : rows[i].date = rows[j].date => i = j
        /\ \A i \in 1..(Len(rows) - 1) : LabelGeq(rows[i + 1].date, rows[i].date)
        /\ \A i \in DOMAIN rows : \A name \in names :
             LET at == PlacesOfDate(payload, name, rows[i].date)
             IN  IF at = {} THEN name \notin DOMAIN rows[i]
                 ELSE /\ name \in DOMAIN rows[i]
                      /\ rows[i][name] =
                           Prop(SeriesItems(payload, name)[Last(at)], name).val
        /\ \A name \in names : \A k \in DOMAIN SeriesItems(payload, name) :
             LET item == SeriesItems(payload, name)[k]
             IN  (isRecord(item) /\ IsNumber(Prop(item, "timestamp"))
                    /\ IsNumber(Prop(item, name))) =>
                   \E i \in DOMAIN rows :
                      rows[i].date = toDateLabel(Prop(item, "timestamp").val)

(***************************************************************************)
(* Properties of the multi-shape variant                                   *)
(***************************************************************************)
\* The rows of an array payload: no error, one row per element, and row i
\* with the date of element i where the element is a pair with a number or
\* a numeral first, and with the price of the pair.
RowPerElement(payload, rs, e) ==
  /\ e = JNull
  /\ Len(rs) = Len(payload.val)
  /\ \A i \in DOMAIN payload.val :
       LET p == payload.val[i]
       IN  (IsPair(p) /\ Number(Index(p, 0)) # NaN) =>
             /\ rs[i].date = toDateLabel(Number(Index(p, 0)).val)
             /\ IsNumber(Index(p, 1)) => rs[i].price = Index(p, 1)

\* The places in a series of the pairs of the date label d.
PairsOfDate(arr, d) ==
  IF ~IsArray(arr) THEN {}
  ELSE {k \in DOMAIN arr.val :
          /\ IsPair(arr.val[k])
          /\ Number(Index(arr.val[k], 0)) # NaN
          /\ toDateLabel(Number(Index(arr.val[k], 0)).val) = d}

\* The rows of an object payload: one row per date, in the order of the
\* labels, each holding for each series the number of the value of the last
\* pair of its date, and a row for every date of a pair.
MergedPerDate(payload, rs) ==
  LET s == Prop(payload, "series")
      seriesObj == IF isRecord(s) THEN s ELSE payload
      names == ObjectKeys(seriesObj)
  IN  /\ \A i, j \in DOMAIN rs : rs[i].date = rs[j].date => i = j
      /\ \A i \in 1..(Len(rs) - 1) : LabelGeq(rs[i + 1].date, rs[i].date)
      /\ \A i \in DOMAIN rs : \A n \in DOMAIN names :
           LET arr == Series(seriesObj, names, n)
               at == PairsOfDate(arr, rs[i].date)
           IN  IF at = {} THEN names[n] \notin DOMAIN rs[i]
               ELSE /\ names[n] \in DOMAIN rs[i]
                    /\ rs[i][names[n]] = Number(Index(arr.val[Last(at)], 1))
      /\ \A n \in DOMAIN names :
           LET arr == Series(seriesObj, names, n)
           IN  IsArray(arr) =>
                 \A k \in DOMAIN arr.val :
                    (IsPair(arr.val[k]) /\ Number(Index(arr.val[k], 0)) # NaN) =>
                      \E i \in DOMAIN rs :
                         rs[i].date = toDateLabel(Number(Index(arr.val[k], 0)).val)

\* C26: in the multi-shape variant, when the payload (json.data, else
\* json.prices, else the whole body) is an array the load succeeds with
\* exactly one row per element of the array, in the order of the input; when
\* it is an object that is no array the rows are merged per date from the
\* [timestamp, value] pairs of each series; 'Formato de respuesta
\* inesperado' is raised for a payload that is neither, and for no other; and
\* the series drawn are the first of seriesKeys, at most 10.
C26_ShapesLoad ==
  [][(variant = "multi" /\ cpc = "awaitJson" /\ cpc' = "done"
        /\ Parseable(cres) /\ ~Nullish(JsonParse(cres))) =>
       LET payload == MultiPayload(JsonParse(cres))
           drawn == Drawn(seriesKeys')
       IN  /\ IsArray(payload) => RowPerElement(payload, rows', err')
           /\ payload.kind = "obj" =>
                (err' = JNull => MergedPerDate(payload, rows'))
           /\ (err' = ErrOf("Formato de respuesta inesperado")) <=>
                ~isRecord(payload)
           /\ Len(drawn) <= 10
           /\ drawn = SubSeq(seriesKeys', 1, Len(drawn))
    ]_vars

(***************************************************************************)
(* Properties of the failure for want of price data                        *)
(***************************************************************************)
NoPriceData == ErrOf("No hay datos de precio")

\* C20: when run() has read a payload with a price array, the load fails
\* with 'No hay datos de precio' if and only if no element of the array is
\* an object with a numeric timestamp and a numeric price > 0, and whenever
\* an element is, the load succeeds with at least one row.
C20_FailsIffNoElementPasses ==
  [][(cpc = "awaitJson" /\ cpc' = "done" /\ variant \in PriceVariants
        /\ Parseable(cres) /\ PriceArrayOf(cres) # <<>>) =>
       LET arr == PriceArrayOf(cres)[1]
           passes == \E i \in DOMAIN arr : ElementOk(arr[i])
       IN  /\ err' = NoPriceData <=> ~passes
           /\ passes => (err' = JNull /\ Len(rows') >= 1)
    ]_vars

(***************************************************************************)
(* Properties of the component's state as a whole                          *)
(***************************************************************************)
\* C21: errors and data are mutually exclusive: in every reachable state err
\* not null implies rows empty and rows not empty implies err null, and a
\* load that failed (HTTP error, rejected fetch, bad payload, no price data)
\* leaves rows at its initial empty value.
C21_ErrorsExcludeData ==
  /\ err # JNull => rows = <<>>
  /\ rows # <<>> => err = JNull
  /\ (cpc = "done" /\ err # JNull) => (rows = <<>> /\ seriesKeys = <<>>)

\* A load has failed on the payload, and rows is empty.
C21_Witness ==
  /\ cpc = "done"
  /\ err = ErrOf("No se encontro data.price como array")
  /\ rows = <<>>

\* C22: end to end through the proxy: when the upstream answers the chart's
\* request with a status that is not ok, the proxy answers 502, and the
\* component takes that response into the error state with err 'HTTP 502',
\* rows empty and loading false, which it reaches and where it stays: the
\* chart is never rendered in that run.
C22_UpstreamErrorEndsInHttp502 ==
  /\ [][(UpstreamNotOk("chart") /\ cpc = "awaitFetch" /\ cpc' # cpc) =>
          /\ hresp["chart"][1].status = 502
          /\ cpc' = "done"
          /\ err' = ErrOf("HTTP 502")
          /\ rows' = <<>>
          /\ loading' = FALSE
          /\ View' = "error"]_vars
  /\ [](UpstreamNotOk("chart") => View # "chart")
  /\ [](err = ErrOf("HTTP 502") => [](View = "error" /\ rows = <<>>))
  /\ (UpstreamNotOk("chart") ~>
        (cpc = "done" /\ err = ErrOf("HTTP 502") /\ rows = <<>> /\ ~loading))

\* The upstream answered 404 and the component ended with 'HTTP 502'.
C22_Witness ==
  /\ cpc = "done"
  /\ err = ErrOf("HTTP 502")
  /\ rows = <<>>
  /\ loading = FALSE

\* C23: changing the range leaves rows, loading and err unchanged; the rows
\* given to the chart are always a contiguous suffix of rows in the same
\* order, not empty whenever rows is not empty; and with 'all' selected,
\* after any sequence of range changes, every loaded row is given again.
C23_RangeKeepsRowsShowsSuffix ==
  /\ [][range' # range =>
          (rows' = rows /\ loading' = loading /\ err' = err)]_vars
  /\ [](LET shown == filteredRows(variant, rows, seriesKeys, range)
             N == Len(rows)
         IN  /\ Len(shown) <= N
             /\ shown = SubSeq(rows, N - Len(shown) + 1, N)
             /\ rows # <<>> => shown # <<>>
             /\ range = "all" => shown = rows)

\* One year is selected over a series of more than a year: the chart is
\* given a proper suffix of the rows, which are all still loaded.
C23_Witness ==
  /\ range = "1y"
  /\ Len(rows) > 365
  /\ Len(filteredRows(variant, rows, seriesKeys, range)) < Len(rows)
  /\ err = JNull
  /\ loading = FALSE

====
